---------------------------- MODULE Spec2Model ----------------------------
(***************************************************************************)
(* A model of the editable triangle mesh (EditTriMesh) of math_lib_3d and  *)
(* of the Model that is built from it.                                     *)
(*                                                                         *)
(* Lists are Rust Vecs; they are modelled as sequences.  The code indexes  *)
(* from 0 and the model keeps the code's 0-based indices in the data: the  *)
(* element with index i of a list s is At(s, i) = s[i + 1].                *)
(* A Vector3 is a record of its three components, an f32 is modelled by an *)
(* integer (the mesh operations only copy and compare these values).       *)
(* A panic ends the program: status, "ok" until then, names the panic (an  *)
(* index out of bounds, a failed assert, a failed debug_assert) and no     *)
(* operation follows.                                                      *)
(***************************************************************************)
EXTENDS Integers, Sequences, FiniteSets, TLC

(* Bounds of the model: the longest lists the add operations build. *)
MaxVertices == 3
MaxTris == 2
MaxMaterials == 2
MaxParts == 2
(* The longest sequence of operations of a run that starts with an empty mesh *)
MaxOps == 7
MaxCoord == 2       \* the coordinates of boxes and points are 0 .. MaxCoord
MaxPairCoord == 1   \* the coordinates of two boxes taken together
MaxScalar == 2      \* the components of a vector and the scalars are -MaxScalar .. MaxScalar

(* The marks the callers use: deleteMarkedTris(1) is the code's own use. *)
MarkInputs == {0, 1}

VARIABLES
    vList,          \* EditTriMesh::vList
    tList,          \* EditTriMesh::tList
    mList,          \* EditTriMesh::mList
    pList,          \* EditTriMesh::pList
    status,         \* "ok", or the panic that ended the program
    op,             \* the last operation called and its argument
    pre,            \* the mesh as it was when the last operation was called
    opsLeft,        \* the number of operations the caller still makes
    debugBuild,     \* whether debug assertions are compiled in
    meshes,         \* the Vec<EditTriMesh> that extractParts is given
    partCount,      \* Model::partCount
    partMeshList,   \* Model::partMeshList
    partTextureList, \* Model::partTextureList
    triMesh,        \* a TriMesh
    aabb,           \* an AABB3
    ret,            \* what the last query returned
    vec             \* a Vector3

meshVars == <<vList, tList, mList, pList>>

modelVars == <<partCount, partMeshList, partTextureList>>

otherVars == <<triMesh, aabb, ret, vec>>

vars == <<vList, tList, mList, pList, status, op, pre, opsLeft, debugBuild,
          meshes, partCount, partMeshList, partTextureList,
          triMesh, aabb, ret, vec>>

---------------------------------------------------------------------------
(* Helpers *)

At(s, i) == s[i + 1]

InRange(s, i) == i >= 0 /\ i < Len(s)

(* Vec::remove(i), for an index in range *)
Remove(s, i) == SubSeq(s, 1, i) \o SubSeq(s, i + 2, Len(s))

Indices(s) == 0 .. (Len(s) - 1)

Mesh == [vList |-> vList, tList |-> tList, mList |-> mList, pList |-> pList]

Ok(mesh) == [mesh |-> mesh, status |-> "ok"]

(* A panic, with the mesh as the operation leaves it *)
IndexOutOfBounds(mesh) == [mesh |-> mesh, status |-> "index out of bounds"]

AssertionFailed(mesh) == [mesh |-> mesh, status |-> "assertion failed"]

DebugAssertionFailed(mesh) == [mesh |-> mesh, status |-> "debug assertion failed"]

---------------------------------------------------------------------------
(* The data *)

Vector3(a, b, c) == [x |-> a, y |-> b, z |-> c]

identity == Vector3(1, 1, 1)

copy(other) == [x |-> other.x, y |-> other.y, z |-> other.z]

VertexDefault ==
    [p |-> identity, u |-> 0, v |-> 0, normal |-> identity, mark |-> 0]

(* The k-th vertex the callers add: every field of it is its own, so that a
   copy of the wrong vertex or of the wrong field shows. *)
InputVertex(k) ==
    [p |-> Vector3(10 * k, 10 * k + 1, 10 * k + 2),
     u |-> 10 * k + 3,
     v |-> 10 * k + 4,
     normal |-> Vector3(10 * k + 5, 10 * k + 6, 10 * k + 7),
     mark |-> k]

(* The triangles the callers add: corner j carries its own UV pair. *)
InputTri(i0, i1, i2, part, material, mark) ==
    [v |-> << [index |-> i0, u |-> 1, v |-> 2],
              [index |-> i1, u |-> 3, v |-> 4],
              [index |-> i2, u |-> 5, v |-> 6] >>,
     normal |-> identity,
     part |-> part,
     material |-> material,
     mark |-> mark]

NameOf(k) == <<"a", "b", "c", "d", "e", "f", "g", "h">>[k]

(* The k-th material and the k-th part the callers add *)
InputMaterial(k) == [diffuseTextureName |-> NameOf(k), mark |-> 0]

InputPart(k) == [name |-> NameOf(k), mark |-> 0]

(* isDegenerate without the comparison of the first corner with the last *)
isDegenerate_AdjacentOnly(t) ==
    \/ t.v[1].index = t.v[2].index
    \/ t.v[2].index = t.v[3].index

isDegenerate(t) ==
    \/ t.v[1].index = t.v[2].index
    \/ t.v[2].index = t.v[3].index
    \/ t.v[1].index = t.v[3].index

---------------------------------------------------------------------------
(* The scalar operators of Vector3 (those of Vec3 have the same bodies).
   A component is an integer, and a quotient is the exact num / den. *)

(* impl Mul<f32> for &Vector3 *)
Vector3_mul(self, a) == Vector3(self.x * a, self.y * a, self.z * a)

(* The product that leaves z as it is *)
f32_mul_KeepsZ(self, v) == Vector3(self * v.x, self * v.y, v.z)

(* impl Mul<&Vector3> for f32 *)
f32_mul(self, v) == Vector3(self * v.x, self * v.y, self * v.z)

Ratio(num, den) == IF den < 0 THEN [num |-> -num, den |-> -den]
                   ELSE [num |-> num, den |-> den]

(* impl Div<f32> for &Vector3, for a that is not zero *)
Vector3_div(self, a) == Vector3(Ratio(self.x, a), Ratio(self.y, a), Ratio(self.z, a))

(* impl MulAssign<f32> for Vector3: the vector it leaves *)
mul_assign(self, a) == Vector3(self.x * a, self.y * a, self.z * a)

(* impl DivAssign<f32> for Vector3: the vector it leaves.  The body
   multiplies. *)
div_assign(self, a) == Vector3(self.x * a, self.y * a, self.z * a)

---------------------------------------------------------------------------
(* Marking *)

MarkAll(list, mark) == [i \in 1 .. Len(list) |-> [list[i] EXCEPT !.mark = mark]]

markAllMaterials(mesh, mark) == [mesh EXCEPT !.mList = MarkAll(mesh.mList, mark)]

markAllParts(mesh, mark) == [mesh EXCEPT !.pList = MarkAll(mesh.pList, mark)]

---------------------------------------------------------------------------
(* Triangle removal *)

ExtractIfMarked(list, mark) ==
    LET keep(t) == t.mark # mark
        gone(t) == t.mark = mark
    IN  [kept |-> SelectSeq(list, keep), count |-> Len(SelectSeq(list, gone))]

deleteMarkedTris(mesh, mark) ==
    [mesh EXCEPT !.tList = ExtractIfMarked(mesh.tList, mark).kept]

deleteDegenerateTris(mesh) ==
    LET keep(t) == ~isDegenerate(t)
    IN  [mesh EXCEPT !.tList = SelectSeq(mesh.tList, keep)]

---------------------------------------------------------------------------
(* deleteVertex, deleteTri, deleteMaterial, deletePart *)

(* An index the range check rejects: debug_assert!(false) panics in a debug
   build, and the function returns having done nothing in a release build. *)
OutOfRange(mesh, debug) == IF debug THEN DebugAssertionFailed(mesh) ELSE Ok(mesh)

(* The corner loop without the move of the corners past the vertex *)
FixupVertexIndices_NoShift(t, j, vertexIndex) ==
    IF \E c \in j .. 3 : t.v[c].index = vertexIndex
    THEN [t EXCEPT !.mark = 1]
    ELSE t

(* The inner loop of deleteVertex over the corners j, j+1, .. 2 of one
   triangle: a corner that uses the vertex marks the triangle and ends the
   loop, a corner past the vertex is moved down by one. *)
RECURSIVE FixupVertexIndices(_, _, _)
FixupVertexIndices(t, j, vertexIndex) ==
    IF j > 3 THEN t
    ELSE IF t.v[j].index = vertexIndex THEN [t EXCEPT !.mark = 1]
    ELSE FixupVertexIndices(
             IF t.v[j].index > vertexIndex
             THEN [t EXCEPT !.v[j].index = @ - 1]
             ELSE t,
             j + 1, vertexIndex)

deleteVertex(mesh, vertexIndex, debug) ==
    IF vertexIndex < 0 \/ vertexIndex >= Len(mesh.vList)
    THEN OutOfRange(mesh, debug)
    ELSE LET fixed == [i \in 1 .. Len(mesh.tList) |->
                          FixupVertexIndices(mesh.tList[i], 1, vertexIndex)]
             removed == [mesh EXCEPT !.tList = fixed,
                                     !.vList = Remove(mesh.vList, vertexIndex)]
         IN  Ok(deleteMarkedTris(removed, 1))

deleteTri(mesh, triIndex, debug) ==
    IF triIndex < 0 \/ triIndex >= Len(mesh.vList)
    THEN OutOfRange(mesh, debug)
    ELSE IF ~InRange(mesh.tList, triIndex)
    THEN IndexOutOfBounds(mesh)  \* Vec::remove
    ELSE Ok([mesh EXCEPT !.tList = Remove(mesh.tList, triIndex)])

FixupMaterialIndex(tri, materialIndex) ==
    IF tri.material = materialIndex
    THEN [tri EXCEPT !.mark = 1]
    ELSE [tri EXCEPT !.mark = 0,
                     !.material = IF @ > materialIndex THEN @ - 1 ELSE @]

deleteMaterial(mesh, materialIndex, debug) ==
    IF materialIndex < 0 \/ materialIndex >= Len(mesh.vList)
    THEN OutOfRange(mesh, debug)
    ELSE LET fixed == [i \in 1 .. Len(mesh.tList) |->
                          FixupMaterialIndex(mesh.tList[i], materialIndex)]
             scanned == [mesh EXCEPT !.tList = fixed]
         IN  IF ~InRange(mesh.mList, materialIndex)
             THEN IndexOutOfBounds(scanned)  \* Vec::remove
             ELSE Ok(deleteMarkedTris(
                      [scanned EXCEPT !.mList = Remove(mesh.mList, materialIndex)],
                      1))

FixupPartIndex(tri, partIndex) ==
    IF tri.part = partIndex
    THEN [tri EXCEPT !.mark = 1]
    ELSE [tri EXCEPT !.mark = 0,
                     !.material = IF @ > partIndex THEN @ - 1 ELSE @]

deletePart(mesh, partIndex, debug) ==
    IF partIndex < 0 \/ partIndex >= Len(mesh.vList)
    THEN OutOfRange(mesh, debug)
    ELSE LET fixed == [i \in 1 .. Len(mesh.tList) |->
                          FixupPartIndex(mesh.tList[i], partIndex)]
             scanned == [mesh EXCEPT !.tList = fixed]
         IN  IF ~InRange(mesh.pList, partIndex)
             THEN IndexOutOfBounds(scanned)  \* Vec::remove
             ELSE Ok(deleteMarkedTris(
                      [scanned EXCEPT !.pList = Remove(mesh.pList, partIndex)],
                      1))

---------------------------------------------------------------------------
(* deleteUnusedMaterials, deleteEmptyParts *)

(* A scan that marks every entry, referenced or not *)
MarkReferenced_Every(list, refs, k) ==
    [list |-> MarkAll(list, 1), ok |-> \A n \in k .. Len(refs) : InRange(list, refs[n])]

(* The scan of the triangle list that marks the referenced entries of a
   material or part list: refs are the triangles' indices in list order.
   Indexing the list with an index that is out of bounds panics, with the
   marks of the triangles before it already set. *)
RECURSIVE MarkReferenced(_, _, _)
MarkReferenced(list, refs, k) ==
    IF k > Len(refs) THEN [list |-> list, ok |-> TRUE]
    ELSE IF ~InRange(list, refs[k]) THEN [list |-> list, ok |-> FALSE]
    ELSE MarkReferenced([list EXCEPT ![refs[k] + 1].mark = 1], refs, k + 1)

(* The numbering loop with the used entries numbered from one: the entry
   with c used entries before it gets c + 1 *)
AssignNewIndices_FromOne(list, k, count) ==
    LET used(n) == Cardinality({m \in k .. n : list[m].mark # 0})
    IN  [list |-> [n \in 1 .. Len(list) |->
                     IF n < k THEN list[n]
                     ELSE IF list[n].mark = 0 THEN [list[n] EXCEPT !.mark = -1]
                     ELSE [list[n] EXCEPT !.mark = count + used(n)]],
         count |-> count + used(Len(list))]

(* The loop that gives every used entry its index in the compacted list
   and marks every unused one -1, from entry k on, count entries being in
   use so far. *)
RECURSIVE AssignNewIndices(_, _, _)
AssignNewIndices(list, k, count) ==
    IF k > Len(list) THEN [list |-> list, count |-> count]
    ELSE IF list[k].mark = 0
    THEN AssignNewIndices([list EXCEPT ![k].mark = -1], k + 1, count)
    ELSE AssignNewIndices([list EXCEPT ![k].mark = count], k + 1, count + 1)

(* An extraction that removes nothing *)
ExtractWhacked_Nothing(list) == [kept |-> list, count |-> 0]

(* An extraction that removes the first entry, whatever its mark *)
ExtractWhacked_First(list) == [kept |-> Tail(list), count |-> 1]

(* Vec::extract_if(|e| e.mark == -1).count() *)
ExtractWhacked(list) ==
    LET keep(e) == e.mark # -1
        gone(e) == e.mark = -1
    IN  [kept |-> SelectSeq(list, keep), count |-> Len(SelectSeq(list, gone))]

deleteUnusedMaterials(mesh) ==
    LET cleared == markAllMaterials(mesh, 0)
        refs == [i \in 1 .. Len(mesh.tList) |-> mesh.tList[i].material]
        scan == MarkReferenced(cleared.mList, refs, 1)
    IN  IF ~scan.ok
        THEN IndexOutOfBounds([cleared EXCEPT !.mList = scan.list])
        ELSE
        LET initial_material_count == Len(scan.list)
            assigned == AssignNewIndices(scan.list, 1, 0)
            new_material_count == assigned.count
        IN  IF new_material_count = Len(assigned.list)
            THEN Ok([mesh EXCEPT !.mList = assigned.list])
            ELSE
            LET fixed == [i \in 1 .. Len(mesh.tList) |->
                            [mesh.tList[i] EXCEPT
                                !.material = At(assigned.list, @).mark]]
                extracted == ExtractWhacked(assigned.list)
                extracted_material_count == extracted.count
                result == [mesh EXCEPT !.tList = fixed,
                                       !.mList = extracted.kept]
            IN  IF initial_material_count - extracted_material_count
                       = new_material_count
                THEN Ok(result)
                ELSE AssertionFailed(result)    \* assert_eq!

deleteEmptyParts(mesh) ==
    LET cleared == markAllParts(mesh, 0)
        refs == [i \in 1 .. Len(mesh.tList) |-> mesh.tList[i].part]
        scan == MarkReferenced(cleared.pList, refs, 1)
    IN  IF ~scan.ok
        THEN IndexOutOfBounds([cleared EXCEPT !.pList = scan.list])
        ELSE
        LET initial_part_count == Len(scan.list)
            assigned == AssignNewIndices(scan.list, 1, 0)
            new_part_count == assigned.count
        IN  IF new_part_count = Len(assigned.list)
            THEN Ok([mesh EXCEPT !.pList = assigned.list])
            ELSE
            LET fixed == [i \in 1 .. Len(mesh.tList) |->
                            [mesh.tList[i] EXCEPT
                                !.part = At(assigned.list, @).mark]]
                extracted == ExtractWhacked(assigned.list)
                extracted_count == extracted.count
                result == [mesh EXCEPT !.tList = fixed,
                                       !.pList = extracted.kept]
            IN  IF initial_part_count - extracted_count = new_part_count
                THEN Ok(result)
                ELSE AssertionFailed(result)    \* assert_eq!

---------------------------------------------------------------------------
(* detachAllFaces *)

(* The copy of one vertex into a slot of the new list, which holds
   Vertex::default(): position, normal and UV are copied, the mark is not. *)
CopyVertex(old_v) ==
    [VertexDefault EXCEPT !.p = copy(old_v.p),
                          !.normal = copy(old_v.normal),
                          !.u = old_v.u,
                          !.v = old_v.v]

(* The corners in scan order are numbered d = 3 * i + j, for corner j of
   triangle i: the number of the first corner whose vertex index is out of
   bounds, or the number of corners when there is none. *)
FirstBadCorner(mesh) ==
    LET n == 3 * Len(mesh.tList)
        bad == {d \in 0 .. n - 1 :
                   ~InRange(mesh.vList,
                            At(mesh.tList, d \div 3).v[(d % 3) + 1].index)}
    IN  IF bad = {} THEN n ELSE CHOOSE d \in bad : \A e \in bad : d <= e

detachAllFaces(mesh) ==
    IF Len(mesh.tList) = 0
    THEN Ok(mesh)
    ELSE
    LET newVertexCount == Len(mesh.tList) * 3
        stop == FirstBadCorner(mesh)
        detached == [i \in 1 .. Len(mesh.tList) |->
                        [mesh.tList[i] EXCEPT !.v =
                            [j \in 1 .. 3 |->
                                LET d_index == (i - 1) * 3 + (j - 1)
                                IN  IF d_index < stop
                                    THEN [@[j] EXCEPT !.index = d_index]
                                    ELSE @[j]]]]
        newVertexList == [d \in 1 .. newVertexCount |->
                            LET s_index ==
                                  At(mesh.tList, (d - 1) \div 3).v[((d - 1) % 3) + 1].index
                            IN  CopyVertex(At(mesh.vList, s_index))]
    IN  IF stop < newVertexCount
        THEN IndexOutOfBounds([mesh EXCEPT !.tList = detached])
        ELSE Ok([mesh EXCEPT !.tList = detached, !.vList = newVertexList])

---------------------------------------------------------------------------
(* copyUvsIntoVertices and optimizeVertexOrder, from the reference bodies
   that the source keeps in a comment *)

markAllVertices(mesh, mark) == [mesh EXCEPT !.vList = MarkAll(mesh.vList, mark)]

(* A search that takes the first vertex at the right place, whatever UVs
   it carries *)
FindVertexForUv_AnyUv(list, vPtr, corner) ==
    LET found == {n \in Indices(list) :
                     /\ At(list, n).p = vPtr.p
                     /\ At(list, n).normal = vPtr.normal}
    IN  IF found = {} THEN -1 ELSE CHOOSE n \in found : \A m \in found : n <= m

(* The linear search of copyUvsIntoVertices: the first vertex with the
   position and normal of vPtr that is unclaimed or carries the corner's
   UVs; -1 when there is none. *)
FindVertexForUv(list, vPtr, corner) ==
    LET found == {n \in Indices(list) :
                     /\ At(list, n).p = vPtr.p
                     /\ At(list, n).normal = vPtr.normal
                     /\ \/ At(list, n).mark = 0
                        \/ (At(list, n).u = corner.u /\ At(list, n).v = corner.v)}
    IN  IF found = {} THEN -1 ELSE CHOOSE n \in found : \A m \in found : n <= m

(* The body of the loops of copyUvsIntoVertices for corner i of triangle
   triIndex *)
CopyUvOfCorner(mesh, triIndex, i) ==
    LET corner == At(mesh.tList, triIndex).v[i + 1]
        vIndex == corner.index
        vPtr == At(mesh.vList, vIndex)
        claimed(v) == [v EXCEPT !.u = corner.u, !.v = corner.v, !.mark = 1]
        newIndex == FindVertexForUv(mesh.vList, vPtr, corner)
    IN  IF vPtr.mark = 0
        THEN [mesh EXCEPT !.vList[vIndex + 1] = claimed(@)]
        ELSE IF vPtr.u = corner.u /\ vPtr.v = corner.v
        THEN mesh
        ELSE IF newIndex # -1
        THEN [mesh EXCEPT
                 !.vList[newIndex + 1] = IF @.mark = 0 THEN claimed(@) ELSE @,
                 !.tList[triIndex + 1].v[i + 1].index = newIndex]
        ELSE [mesh EXCEPT
                 !.vList = Append(@, claimed(vPtr)),
                 !.tList[triIndex + 1].v[i + 1].index = Len(mesh.vList)]

(* The corners are visited in the order d = 3 * triIndex + i. *)
RECURSIVE CopyUvsFrom(_, _)
CopyUvsFrom(mesh, d) ==
    IF d >= 3 * Len(mesh.tList) THEN mesh
    ELSE CopyUvsFrom(CopyUvOfCorner(mesh, d \div 3, d % 3), d + 1)

copyUvsIntoVertices(mesh) == CopyUvsFrom(markAllVertices(mesh, 0), 0)

(* The scan of optimizeVertexOrder from corner d on: a vertex used for the
   first time gets the next slot as its mark, and the corner is remapped to
   the mark of its vertex. *)
RECURSIVE AssignVertexOrder(_, _, _)
AssignVertexOrder(mesh, d, usedVertexCount) ==
    IF d >= 3 * Len(mesh.tList)
    THEN [mesh |-> mesh, usedVertexCount |-> usedVertexCount]
    ELSE LET i == d \div 3
             j == d % 3
             index == At(mesh.tList, i).v[j + 1].index
             first == At(mesh.vList, index).mark = Len(mesh.vList)
             slot == IF first THEN usedVertexCount ELSE At(mesh.vList, index).mark
         IN  AssignVertexOrder(
                 [mesh EXCEPT !.vList[index + 1].mark = slot,
                              !.tList[i + 1].v[j + 1].index = slot],
                 d + 1,
                 IF first THEN usedVertexCount + 1 ELSE usedVertexCount)

(* The vertex list left as it is, as if the sort were not made *)
SortedByMark_Unsorted(list, usedVertexCount) == {list}

(* The vertex lists qsort may leave: the used vertices in the order of
   their marks, then the unused ones, whose marks are equal, in any order *)
SortedByMark(list, usedVertexCount) ==
    LET slotOf(m) == CHOOSE n \in 1 .. Len(list) : list[n].mark = m
        unused == {n \in 1 .. Len(list) : list[n].mark = Len(list)}
        orders == {f \in [1 .. Cardinality(unused) -> unused] :
                      \A a, b \in DOMAIN f : a # b => f[a] # f[b]}
    IN  {[n \in 1 .. Len(list) |->
             IF n <= usedVertexCount THEN list[slotOf(n - 1)]
             ELSE list[f[n - usedVertexCount]]] : f \in orders}

(* optimizeVertexOrder: every mesh the call may leave *)
optimizeVertexOrder(mesh, removeUnusedVertices) ==
    LET scan == AssignVertexOrder(markAllVertices(mesh, Len(mesh.vList)), 0, 0)
    IN  {[scan.mesh EXCEPT !.vList =
             IF removeUnusedVertices
             THEN SubSeq(sorted, 1, scan.usedVertexCount)
             ELSE sorted] :
         sorted \in SortedByMark(scan.mesh.vList, scan.usedVertexCount)}

---------------------------------------------------------------------------
(* extractParts and the Model *)

(* EditTriMesh::default() *)
EmptyMesh == [vList |-> <<>>, tList |-> <<>>, mList |-> <<>>, pList |-> <<>>]

(* The body of extractParts is a comment: the call changes neither the
   mesh nor the meshes it is given. *)
extractParts(mesh, given) == [mesh |-> mesh, meshes |-> given]

Model == [partCount |-> partCount,
          partMeshList |-> partMeshList,
          partTextureList |-> partTextureList]

(* Model::new *)
NewModel == [partCount |-> 0, partMeshList |-> <<>>, partTextureList |-> <<>>]

freeMemory(model) ==
    [model EXCEPT !.partMeshList = <<>>,
                  !.partTextureList = <<>>,
                  !.partCount = 0]

(* Vec::reserve leaves the length of the lists as it is. *)
allocateMemory(model, nPartCount) ==
    LET freed == freeMemory(model)
    IN  IF nPartCount < 1 THEN freed ELSE [freed EXCEPT !.partCount = nPartCount]

RECURSIVE MaterialCounts(_, _)
MaterialCounts(partMeshes, n) ==
    IF n = 0 THEN 0
    ELSE MaterialCounts(partMeshes, n - 1) + Len(partMeshes[n].mList)

(* Model::fromEditMesh: the model it leaves and how it ends.  The loop
   that counts the parts indexes partMeshes with every part index of the
   mesh.  Past it, allocateMemory reserves but does not fill the lists, so
   that the first getPartMesh(0) of the conversion loop is out of bounds. *)
fromEditMesh(model, mesh) ==
    LET freed == freeMemory(model)
    IN  IF Len(mesh.pList) < 1
        THEN [model |-> freed, status |-> "ok"]
        ELSE
        LET partMeshes == extractParts(mesh, <<>>).meshes
        IN  IF \E i \in Indices(mesh.pList) : ~InRange(partMeshes, i)
            THEN [model |-> freed, status |-> "index out of bounds"]
            ELSE
            LET numParts == MaterialCounts(partMeshes, Len(mesh.pList))
                allocated == allocateMemory(freed, numParts)
            IN  IF numParts > 0
                THEN [model |-> allocated, status |-> "index out of bounds"]
                ELSE [model |-> allocated, status |-> "ok"]

---------------------------------------------------------------------------
(* import_s3d.  A file is what its lines hold: the version, the counts of
   the header, the lines of the part list, and the material index of each
   line of the triangle list (every vertex index and UV of those lines is
   0).  The texture and the vertex lists have the lines the header counts,
   the triangle list may end early. *)

(* usize::MAX, which is above every index *)
usize_MAX == 1000000

Err == [mesh |-> EmptyMesh, status |-> "Err"]

(* Tri::default() *)
TriDefault ==
    [v |-> [j \in 1 .. 3 |-> [index |-> 0, u |-> 0, v |-> 0]],
     normal |-> identity,
     part |-> 0,
     material |-> 0,
     mark |-> 0]

(* The loop over the part list from line i on: the parts read, or the
   mismatch of a line with the counts so far *)
RECURSIVE ReadParts(_, _, _, _, _)
ReadParts(file, i, firstVert, firstTri, parts) ==
    IF i > Len(file.partList)
    THEN [mismatch |-> FALSE, pList |-> parts,
          firstVert |-> firstVert, firstTri |-> firstTri]
    ELSE LET line == file.partList[i]
         IN  IF firstVert # line.partFirstVert \/ firstTri # line.partFirstTri
             THEN [mismatch |-> TRUE, pList |-> parts,
                   firstVert |-> firstVert, firstTri |-> firstTri]
             ELSE ReadParts(file, i + 1,
                            firstVert + line.partNumVerts,
                            firstTri + line.partNumTris,
                            Append(parts, [name |-> NameOf(i),
                                           mark |-> line.partNumTris]))

(* The check for an untextured triangle that appends a white material for
   every such triangle *)
Untextured_AppendsEachTime(t, materials, whiteTextureIndex) ==
    IF t.material = usize_MAX
    THEN [t |-> [t EXCEPT !.material = Len(materials)],
          mList |-> Append(materials, [diffuseTextureName |-> "White", mark |-> 0]),
          whiteTextureIndex |-> Len(materials)]
    ELSE [t |-> t, mList |-> materials, whiteTextureIndex |-> whiteTextureIndex]

(* The check for an untextured triangle: the white material is appended
   the first time one is met. *)
Untextured(t, materials, whiteTextureIndex) ==
    IF t.material = usize_MAX
    THEN LET first == whiteTextureIndex = usize_MAX
             withWhite == IF first
                          THEN Append(materials,
                                      [diffuseTextureName |-> "White", mark |-> 0])
                          ELSE materials
             index == IF first THEN Len(withWhite) - 1 ELSE whiteTextureIndex
         IN  [t |-> [t EXCEPT !.material = index],
              mList |-> withWhite,
              whiteTextureIndex |-> index]
    ELSE [t |-> t, mList |-> materials, whiteTextureIndex |-> whiteTextureIndex]

(* The loops over the parts and the triangles of each part, from triangle
   i of part partIndex on; read.line counts the lines read so far. *)
RECURSIVE ReadTris(_, _, _, _)
ReadTris(file, read, partIndex, i) ==
    IF partIndex >= Len(read.pList) THEN read
    ELSE IF i >= At(read.pList, partIndex).mark
    THEN ReadTris(file, read, partIndex + 1, 0)
    ELSE LET hasLine == read.line < Len(file.triList)
             materialIndex == file.triList[read.line + 1]
             t == [TriDefault EXCEPT
                      !.part = partIndex,
                      !.material = IF ~hasLine THEN @
                                   ELSE IF materialIndex < 0 THEN usize_MAX
                                   ELSE materialIndex]
             checked == Untextured(t, read.mList, read.whiteTextureIndex)
         IN  ReadTris(file,
                      [read EXCEPT !.mList = checked.mList,
                                   !.whiteTextureIndex = checked.whiteTextureIndex,
                                   !.tList = Append(@, checked.t),
                                   !.destTriIndex = @ + 1,
                                   !.line = IF hasLine THEN @ + 1 ELSE @],
                      partIndex, i + 1)

import_s3d(file) ==
    IF file.version # "103" THEN Err
    ELSE
    LET parts == ReadParts(file, 1, 0, 0, <<>>)
    IN  IF parts.mismatch THEN Err
        ELSE IF parts.firstVert # file.numVerts \/ parts.firstTri # file.numTris
        THEN Err
        ELSE
        LET textures == [k \in 1 .. file.numTextures |->
                            [diffuseTextureName |-> NameOf(k), mark |-> 0]]
            read == ReadTris(file,
                             [pList |-> parts.pList, mList |-> textures,
                              tList |-> <<>>, whiteTextureIndex |-> usize_MAX,
                              destTriIndex |-> 0, line |-> 0],
                             0, 0)
            vertices == [k \in 1 .. file.numVerts |->
                            [VertexDefault EXCEPT
                                !.p = Vector3(10 * k, 10 * k + 1, 10 * k + 2)]]
            edit_mesh == [vList |-> vertices, tList |-> read.tList,
                          mList |-> read.mList, pList |-> read.pList]
        IN  IF read.destTriIndex # Len(read.tList)
            THEN AssertionFailed(edit_mesh)     \* assert_eq!
            ELSE Ok(edit_mesh)

---------------------------------------------------------------------------
(* TriMesh *)

(* The value of aabb and of ret while no box and no result is there *)
NoBox == <<>>

(* TriMesh::default, without the bounding box *)
TriMeshDefault ==
    [vertexCount |-> 0, vertexList |-> <<>>, triCount |-> 0, triList |-> <<>>]

(* A RenderVertex and a RenderTri of a TriMesh that a caller has filled *)
RenderVertexZero == [p |-> Vector3(0, 0, 0), n |-> Vector3(0, 0, 0), u |-> 0, v |-> 0]

RenderTriZero == [a |-> 0, b |-> 0, c |-> 0]

(* TriMesh::fromEditMesh: the copy of the mesh is converted only when the
   TriMesh already has a triangle count; the loop then writes the position
   of vertex i of the mesh into vertexList[i], which is out of bounds when
   the mesh has more vertices than the TriMesh. *)
TriMeshFromEditMesh(self, mesh) ==
    LET tempMesh == mesh
    IN  IF self.triCount < 1
        THEN [triMesh |-> self, status |-> "ok"]
        ELSE
        LET copied == [i \in 1 .. Len(self.vertexList) |->
                          IF i <= Len(tempMesh.vList)
                          THEN [self.vertexList[i] EXCEPT !.p = copy(tempMesh.vList[i].p)]
                          ELSE self.vertexList[i]]
        IN  [triMesh |-> [self EXCEPT !.vertexList = copied],
             status |-> IF Len(tempMesh.vList) > Len(self.vertexList)
                        THEN "index out of bounds" ELSE "ok"]

---------------------------------------------------------------------------
(* AABB3.  A coordinate is an integer where the program has an f32: the
   comparisons, sums and products of the boxes, points and planes of this
   model are exact in f32 as well. *)

(* f32::MAX, which is above every coordinate *)
F32Max == 1000

Vec3(x, y, z) == [x |-> x, y |-> y, z |-> z]

AABB3(min, max) == [min |-> min, max |-> max]

corner(self, i) ==
    Vec3(IF i % 2 = 1 THEN self.max.x ELSE self.min.x,
         IF (i \div 2) % 2 = 1 THEN self.max.y ELSE self.min.y,
         IF (i \div 4) % 2 = 1 THEN self.max.z ELSE self.min.z)

empty(self) ==
    LET k_big_number == F32Max
    IN  AABB3(Vec3(k_big_number, k_big_number, k_big_number),
              Vec3(-k_big_number, -k_big_number, -k_big_number))

(* add_point: the six tests in the order of the code, each on the box the
   tests before it have left.  The tests of y and z compare with min.x and
   max.x, as the code does. *)
add_point(self, p) ==
    LET s1 == IF p.x < self.min.x THEN [self EXCEPT !.min.x = p.x] ELSE self
        s2 == IF p.x > s1.max.x THEN [s1 EXCEPT !.max.x = p.x] ELSE s1
        s3 == IF p.y < s2.min.x THEN [s2 EXCEPT !.min.y = p.y] ELSE s2
        s4 == IF p.y > s3.max.x THEN [s3 EXCEPT !.max.y = p.y] ELSE s3
        s5 == IF p.z < s4.min.x THEN [s4 EXCEPT !.min.z = p.z] ELSE s4
        s6 == IF p.z > s5.max.x THEN [s5 EXCEPT !.max.z = p.z] ELSE s5
    IN  s6

(* add_aabb: the six tests in the order of the code; every one of them
   reads the min corner of the box added. *)
add_aabb(self, box_aabb3) ==
    LET b == box_aabb3.min
        s1 == IF b.x < self.min.x THEN [self EXCEPT !.min.x = b.x] ELSE self
        s2 == IF b.x > s1.max.x THEN [s1 EXCEPT !.max.x = b.x] ELSE s1
        s3 == IF b.y < s2.min.x THEN [s2 EXCEPT !.min.y = b.y] ELSE s2
        s4 == IF b.y > s3.max.x THEN [s3 EXCEPT !.max.y = b.y] ELSE s3
        s5 == IF b.z < s4.min.x THEN [s4 EXCEPT !.min.z = b.z] ELSE s4
        s6 == IF b.z > s5.max.x THEN [s5 EXCEPT !.max.z = b.z] ELSE s5
    IN  s6

is_empty(self) ==
    (self.min.x > self.max.x) \/ (self.min.y > self.max.y) \/ (self.min.z > self.max.z)

(* contains with the min face of x left out of the box *)
contains_OpenAtMinX(self, p) ==
    /\ p.x > self.min.x
    /\ p.x <= self.max.x
    /\ p.y >= self.min.y
    /\ p.y <= self.max.y
    /\ p.z >= self.min.z
    /\ p.z <= self.max.z

contains(self, p) ==
    /\ p.x >= self.min.x
    /\ p.x <= self.max.x
    /\ p.y >= self.min.y
    /\ p.y <= self.max.y
    /\ p.z >= self.min.z
    /\ p.z <= self.max.z

(* One axis of closest_point_to *)
PushInto(c, lo, hi) == IF c < lo THEN lo ELSE IF c > hi THEN hi ELSE c

closest_point_to(self, p) ==
    Vec3(PushInto(p.x, self.min.x, self.max.x),
         PushInto(p.y, self.min.y, self.max.y),
         PushInto(p.z, self.min.z, self.max.z))

distance_squared(a, b) ==
    LET dx == a.x - b.x
        dy == a.y - b.y
        dz == a.z - b.z
    IN  dx * dx + dy * dy + dz * dz

intersects_sphere(self, center, radius) ==
    LET closest_point == closest_point_to(self, center)
    IN  distance_squared(center, closest_point) < radius * radius

(* The smallest and the largest n . c over the corners c of the box, as
   classify_plane sums them axis by axis *)
MinMaxD(self, n) ==
    LET x == IF n.x > 0
             THEN [min_d |-> n.x * self.min.x, max_d |-> n.x * self.max.x]
             ELSE [min_d |-> n.x * self.max.x, max_d |-> n.x * self.min.x]
        y == IF n.y > 0
             THEN [min_d |-> x.min_d + n.y * self.min.y, max_d |-> x.max_d + n.y * self.max.y]
             ELSE [min_d |-> x.min_d + n.y * self.max.y, max_d |-> x.max_d + n.y * self.min.y]
        z == IF n.z > 0
             THEN [min_d |-> y.min_d + n.z * self.min.z, max_d |-> y.max_d + n.z * self.max.z]
             ELSE [min_d |-> y.min_d + n.z * self.max.z, max_d |-> y.max_d + n.z * self.min.z]
    IN  z

(* classify_plane that takes a box touching the plane from the front for
   one that straddles it *)
classify_plane_StrictFront(self, n, d) ==
    LET m == MinMaxD(self, n)
    IN  IF m.min_d > d THEN 1
        ELSE IF m.max_d <= d THEN -1
        ELSE 0

classify_plane(self, n, d) ==
    LET m == MinMaxD(self, n)
    IN  IF m.min_d >= d THEN 1
        ELSE IF m.max_d <= d THEN -1
        ELSE 0

(* ray_intersect.  A parametric distance is the exact quotient num / den,
   with den > 0, where the program has an f32. *)
Quot(num, den) == IF den < 0 THEN [num |-> -num, den |-> -den]
                  ELSE [num |-> num, den |-> den]

Greater(s, t) == s.num * t.den > t.num * s.den

k_no_intersection == Quot(F32Max, 1)

(* The first part of ray_intersect on one axis: the distance to the front
   face of the axis, -1 when the origin is between the two faces, and
   whether the ray is rejected *)
FrontFace(org, delta, lo, hi) ==
    IF org < lo
    THEN [reject |-> lo - org > delta, inside |-> FALSE,
          t |-> IF lo - org > delta THEN Quot(-1, 1) ELSE Quot(lo - org, delta)]
    ELSE IF org > hi
    THEN [reject |-> hi - org < delta, inside |-> FALSE,
          t |-> IF hi - org < delta THEN Quot(-1, 1) ELSE Quot(hi - org, delta)]
    ELSE [reject |-> FALSE, inside |-> TRUE, t |-> Quot(-1, 1)]

(* org + delta * t is below lo or above hi *)
Misses(org, delta, t, lo, hi) ==
    \/ org * t.den + delta * t.num < lo * t.den
    \/ org * t.den + delta * t.num > hi * t.den

(* ray_intersect with return_normal = None *)
ray_intersect(self, ray_org, ray_delta) ==
    LET x == FrontFace(ray_org.x, ray_delta.x, self.min.x, self.max.x)
        y == FrontFace(ray_org.y, ray_delta.y, self.min.y, self.max.y)
        z == FrontFace(ray_org.z, ray_delta.z, self.min.z, self.max.z)
        which == IF Greater(z.t, IF Greater(y.t, x.t) THEN y.t ELSE x.t) THEN 2
                 ELSE IF Greater(y.t, x.t) THEN 1
                 ELSE 0
        t == IF which = 0 THEN x.t ELSE IF which = 1 THEN y.t ELSE z.t
        missX == Misses(ray_org.x, ray_delta.x, t, self.min.x, self.max.x)
        missY == Misses(ray_org.y, ray_delta.y, t, self.min.y, self.max.y)
        missZ == Misses(ray_org.z, ray_delta.z, t, self.min.z, self.max.z)
    IN  IF x.reject \/ y.reject \/ z.reject THEN k_no_intersection
        ELSE IF x.inside /\ y.inside /\ z.inside THEN Quot(0, 1)
        ELSE IF which = 0 /\ (missY \/ missZ) THEN k_no_intersection
        ELSE IF which = 1 /\ (missX \/ missZ) THEN k_no_intersection
        ELSE IF which = 2 /\ (missX \/ missY) THEN k_no_intersection
        ELSE t

(* Option<&mut AABB3>: None is the empty sequence, Some(b) is <<b>>. *)
None == <<>>

Some(b) == <<b>>

(* f32::max and f32::min *)
f32_max(a, b) == IF a > b THEN a ELSE b

f32_min(a, b) == IF a < b THEN a ELSE b

(* intersect_aabbs with the min of the two max.x forgotten *)
intersect_aabbs_Box1MaxX(box1, box2, box_intersect) ==
    IF \/ box1.min.x > box2.max.x \/ box1.max.x < box2.min.x
       \/ box1.min.y > box2.max.y \/ box1.max.y < box2.min.y
       \/ box1.min.z > box2.max.z \/ box1.max.z < box2.min.z
    THEN [result |-> FALSE, box_intersect |-> box_intersect]
    ELSE [result |-> TRUE,
          box_intersect |->
              IF box_intersect = None THEN None
              ELSE Some(AABB3(Vec3(f32_max(box1.min.x, box2.min.x),
                                   f32_max(box1.min.y, box2.min.y),
                                   f32_max(box1.min.z, box2.min.z)),
                              Vec3(box1.max.x,
                                   f32_min(box1.max.y, box2.max.y),
                                   f32_min(box1.max.z, box2.max.z))))]

(* intersect_aabbs: what it returns and the output box after the call *)
intersect_aabbs(box1, box2, box_intersect) ==
    IF \/ box1.min.x > box2.max.x
       \/ box1.max.x < box2.min.x
       \/ box1.min.y > box2.max.y
       \/ box1.max.y < box2.min.y
       \/ box1.min.z > box2.max.z
       \/ box1.max.z < box2.min.z
    THEN [result |-> FALSE, box_intersect |-> box_intersect]
    ELSE [result |-> TRUE,
          box_intersect |->
              IF box_intersect = None THEN None
              ELSE Some(AABB3(Vec3(f32_max(box1.min.x, box2.min.x),
                                   f32_max(box1.min.y, box2.min.y),
                                   f32_max(box1.min.z, box2.min.z)),
                              Vec3(f32_min(box1.max.x, box2.max.x),
                                   f32_min(box1.max.y, box2.max.y),
                                   f32_min(box1.max.z, box2.max.z))))]

(* intersect_moving_aabb.  The interval of overlap so far, or no
   intersection: one axis of the slab test, on the interval the axes before
   it have left.  The times are exact quotients where the program multiplies
   by 1.0 / d in f32. *)
SlabAxis(slab, s_min, s_max, m_min, m_max, d) ==
    IF ~slab.hit THEN slab
    ELSE IF d = 0
    THEN IF (s_min >= m_max) \/ (s_max <= m_min)
         THEN [slab EXCEPT !.hit = FALSE]
         ELSE slab
    ELSE LET a == Quot(s_min - m_max, d)
             b == Quot(s_max - m_min, d)
             enter == IF Greater(a, b) THEN b ELSE a
             leave == IF Greater(a, b) THEN a ELSE b
             t_enter == IF Greater(enter, slab.t_enter) THEN enter ELSE slab.t_enter
             t_leave == IF Greater(slab.t_leave, leave) THEN leave ELSE slab.t_leave
         IN  [hit |-> ~Greater(t_enter, t_leave),
              t_enter |-> t_enter, t_leave |-> t_leave]

intersect_moving_aabb(stationary_box, moving_box, d) ==
    LET start == [hit |-> TRUE, t_enter |-> Quot(0, 1), t_leave |-> Quot(1, 1)]
        x == SlabAxis(start, stationary_box.min.x, stationary_box.max.x,
                      moving_box.min.x, moving_box.max.x, d.x)
        y == SlabAxis(x, stationary_box.min.y, stationary_box.max.y,
                      moving_box.min.y, moving_box.max.y, d.y)
        z == SlabAxis(y, stationary_box.min.z, stationary_box.max.z,
                      moving_box.min.z, moving_box.max.z, d.z)
    IN  IF z.hit THEN z.t_enter ELSE k_no_intersection

---------------------------------------------------------------------------
(* The operations of the mesh, as steps of the program *)

Apply(result, name, arg) ==
    /\ vList' = result.mesh.vList
    /\ tList' = result.mesh.tList
    /\ mList' = result.mesh.mList
    /\ pList' = result.mesh.pList
    /\ status' = result.status
    /\ op' = [name |-> name, arg |-> arg]
    /\ pre' = Mesh
    /\ opsLeft' = opsLeft - 1
    /\ UNCHANGED <<debugBuild, meshes, modelVars, otherVars>>

(* A TriMesh the caller has not filled, no box, and Vector3::identity() *)
NoOther ==
    /\ triMesh = TriMeshDefault
    /\ aabb = NoBox
    /\ ret = NoBox
    /\ vec = identity

NoModel ==
    /\ meshes = <<>>
    /\ partCount = NewModel.partCount
    /\ partMeshList = NewModel.partMeshList
    /\ partTextureList = NewModel.partTextureList

(* An operation can be called: the program has not panicked. *)
Running == status = "ok" /\ opsLeft > 0

Init ==
    /\ vList = <<>>
    /\ tList = <<>>
    /\ mList = <<>>
    /\ pList = <<>>
    /\ status = "ok"
    /\ op = [name |-> "default", arg |-> 0]
    /\ pre = Mesh
    /\ opsLeft = MaxOps
    /\ debugBuild \in BOOLEAN
    /\ NoModel
    /\ NoOther

(* The add operations.  The callers add the vertices, materials and parts
   InputVertex(1), InputVertex(2), ..: the one added to a list of length n
   is the (n+1)-th. *)
AddVertex ==
    /\ Running
    /\ Len(vList) < MaxVertices
    /\ Apply(Ok([Mesh EXCEPT !.vList = Append(@, InputVertex(Len(vList) + 1))]),
             "addVertex", 0)

AddMaterial ==
    /\ Running
    /\ Len(mList) < MaxMaterials
    /\ Apply(Ok([Mesh EXCEPT !.mList = Append(@, InputMaterial(Len(mList) + 1))]),
             "addMaterial", 0)

AddPart ==
    /\ Running
    /\ Len(pList) < MaxParts
    /\ Apply(Ok([Mesh EXCEPT !.pList = Append(@, InputPart(Len(pList) + 1))]),
             "addPart", 0)

(* addTri with indices that are in range (and, to keep the inputs few, with
   vertex indices below MaxVertices) *)
AddTri ==
    /\ Running
    /\ Len(tList) < MaxTris
    /\ \E i0 \in Indices(vList), i1 \in Indices(vList), i2 \in Indices(vList),
          part \in Indices(pList), material \in Indices(mList),
          mark \in MarkInputs :
          /\ i0 < MaxVertices /\ i1 < MaxVertices /\ i2 < MaxVertices
          /\ Apply(Ok([Mesh EXCEPT !.tList =
                        Append(@, InputTri(i0, i1, i2, part, material, mark))]),
                   "addTri", 0)

(* The delete operations, each with an index valid for its own list *)
DeleteVertex ==
    /\ Running
    /\ \E i \in Indices(vList) :
          Apply(deleteVertex(Mesh, i, debugBuild), "deleteVertex", i)

DeleteTri ==
    /\ Running
    /\ \E i \in Indices(tList) :
          Apply(deleteTri(Mesh, i, debugBuild), "deleteTri", i)

DeleteMaterial ==
    /\ Running
    /\ \E i \in Indices(mList) :
          Apply(deleteMaterial(Mesh, i, debugBuild), "deleteMaterial", i)

DeletePart ==
    /\ Running
    /\ \E i \in Indices(pList) :
          Apply(deletePart(Mesh, i, debugBuild), "deletePart", i)

DeleteUnusedMaterials ==
    /\ Running
    /\ Apply(deleteUnusedMaterials(Mesh), "deleteUnusedMaterials", 0)

DeleteEmptyParts ==
    /\ Running
    /\ Apply(deleteEmptyParts(Mesh), "deleteEmptyParts", 0)

DeleteMarkedTris ==
    /\ Running
    /\ \E mark \in MarkInputs :
          Apply(Ok(deleteMarkedTris(Mesh, mark)), "deleteMarkedTris", mark)

DeleteDegenerateTris ==
    /\ Running
    /\ Apply(Ok(deleteDegenerateTris(Mesh)), "deleteDegenerateTris", 0)

DetachAllFaces ==
    /\ Running
    /\ Apply(detachAllFaces(Mesh), "detachAllFaces", 0)

Next ==
    \/ AddVertex
    \/ AddMaterial
    \/ AddPart
    \/ AddTri
    \/ DeleteVertex
    \/ DeleteTri
    \/ DeleteMaterial
    \/ DeletePart
    \/ DeleteUnusedMaterials
    \/ DeleteEmptyParts
    \/ DeleteMarkedTris
    \/ DeleteDegenerateTris
    \/ DetachAllFaces

Spec == Init /\ [][Next]_vars

---------------------------------------------------------------------------
(* One operation on any mesh that the add operations build.

   The meshes are enumerated instead of being built step by step: the
   vertex, material and part lists are the first InputVertex, InputMaterial
   and InputPart, and the triangle list is any list of triangles whose
   indices are in range.  The caller then makes one call. *)

FirstVertices(n) == [k \in 1 .. n |-> InputVertex(k)]

FirstMaterials(n) == [k \in 1 .. n |-> InputMaterial(k)]

FirstParts(n) == [k \in 1 .. n |-> InputPart(k)]

InitOn(nv, nm, np, tris, ops) ==
    /\ vList = FirstVertices(nv)
    /\ mList = FirstMaterials(nm)
    /\ pList = FirstParts(np)
    /\ \E n \in 0 .. MaxTris : tList \in [1 .. n -> tris]
    /\ status = "ok"
    /\ op = [name |-> "default", arg |-> 0]
    /\ pre = Mesh
    /\ opsLeft = ops
    /\ debugBuild \in BOOLEAN
    /\ NoModel
    /\ NoOther

(* The operations on vertices and triangles, on the meshes with one material
   and one part and any vertex indices in the triangles *)
InitVertex ==
    \E nv \in 0 .. MaxVertices :
        InitOn(nv, 1, 1,
               {InputTri(i0, i1, i2, 0, 0, mark) :
                   i0 \in 0 .. nv - 1, i1 \in 0 .. nv - 1, i2 \in 0 .. nv - 1,
                   mark \in MarkInputs},
               1)

NextVertex ==
    \/ DeleteVertex
    \/ DeleteTri
    \/ DeleteMarkedTris
    \/ DeleteDegenerateTris
    \/ DetachAllFaces

SpecVertex == InitVertex /\ [][NextVertex]_vars

(* The operations on materials and parts, on the meshes whose triangles use
   vertex 0 only and any material and part *)
InitMaterial ==
    \E nv \in 0 .. MaxVertices, nm \in 0 .. MaxMaterials, np \in 0 .. MaxParts :
        InitOn(nv, nm, np,
               {InputTri(0, 0, 0, part, material, mark) :
                   part \in 0 .. np - 1, material \in 0 .. nm - 1,
                   mark \in IF nv > 0 THEN MarkInputs ELSE {}},
               1)

NextMaterial ==
    \/ DeleteMaterial
    \/ DeletePart
    \/ DeleteUnusedMaterials
    \/ DeleteEmptyParts

SpecMaterial == InitMaterial /\ [][NextMaterial]_vars

---------------------------------------------------------------------------
(* The delete operations with an index past the end of the list they delete
   from, on the same meshes *)

PastEnd(list) == {i \in 0 .. MaxVertices : i >= Len(list)}

DeleteVertexPastEnd ==
    /\ Running
    /\ \E i \in PastEnd(vList) :
          Apply(deleteVertex(Mesh, i, debugBuild), "deleteVertex", i)

DeleteTriPastEnd ==
    /\ Running
    /\ \E i \in PastEnd(tList) :
          Apply(deleteTri(Mesh, i, debugBuild), "deleteTri", i)

DeleteMaterialPastEnd ==
    /\ Running
    /\ \E i \in PastEnd(mList) :
          Apply(deleteMaterial(Mesh, i, debugBuild), "deleteMaterial", i)

DeletePartPastEnd ==
    /\ Running
    /\ \E i \in PastEnd(pList) :
          Apply(deletePart(Mesh, i, debugBuild), "deletePart", i)

NextPastEnd ==
    \/ DeleteVertexPastEnd
    \/ DeleteTriPastEnd
    \/ DeleteMaterialPastEnd
    \/ DeletePartPastEnd

SpecPastEnd == InitMaterial /\ [][NextPastEnd]_vars

---------------------------------------------------------------------------
(* extractParts and the operations of the Model, on the meshes whose
   triangles use vertex 0 only and any material and part *)

ApplyModel(model, ends, name, arg) ==
    /\ partCount' = model.partCount
    /\ partMeshList' = model.partMeshList
    /\ partTextureList' = model.partTextureList
    /\ status' = ends
    /\ op' = [name |-> name, arg |-> arg]
    /\ pre' = Mesh
    /\ opsLeft' = opsLeft - 1
    /\ UNCHANGED <<meshVars, debugBuild, meshes, otherVars>>

(* extractParts, given no mesh (as Model::fromEditMesh calls it) or one
   empty mesh for each part *)
ExtractParts ==
    /\ Running
    /\ \E n \in {0, Len(pList)} :
          LET result == extractParts(Mesh, [k \in 1 .. n |-> EmptyMesh])
          IN  /\ meshes' = result.meshes
              /\ vList' = result.mesh.vList
              /\ tList' = result.mesh.tList
              /\ mList' = result.mesh.mList
              /\ pList' = result.mesh.pList
              /\ op' = [name |-> "extractParts", arg |-> n]
              /\ pre' = Mesh
              /\ opsLeft' = opsLeft - 1
              /\ UNCHANGED <<status, debugBuild, modelVars, otherVars>>

AllocateMemory ==
    /\ Running
    /\ \E nPartCount \in 0 .. MaxParts :
          ApplyModel(allocateMemory(Model, nPartCount), "ok",
                     "allocateMemory", nPartCount)

FreeMemory ==
    /\ Running
    /\ ApplyModel(freeMemory(Model), "ok", "freeMemory", 0)

FromEditMesh ==
    /\ Running
    /\ LET result == fromEditMesh(Model, Mesh)
       IN  ApplyModel(result.model, result.status, "fromEditMesh", 0)

InitModel ==
    \E nv \in 0 .. MaxVertices, nm \in 0 .. MaxMaterials, np \in 0 .. MaxParts :
        InitOn(nv, nm, np,
               {InputTri(0, 0, 0, part, material, 0) :
                   part \in 0 .. np - 1,
                   material \in IF nv > 0 THEN 0 .. nm - 1 ELSE {}},
               2)

NextModel ==
    \/ ExtractParts
    \/ AllocateMemory
    \/ FreeMemory
    \/ FromEditMesh

SpecModel == InitModel /\ [][NextModel]_vars

---------------------------------------------------------------------------
(* TriMesh::fromEditMesh, on a TriMesh that is new or that a caller has
   filled with zeroed vertices and triangles *)

TriMeshFilled(nVertexCount, nTriCount) ==
    [vertexCount |-> nVertexCount,
     vertexList |-> [i \in 1 .. nVertexCount |-> RenderVertexZero],
     triCount |-> nTriCount,
     triList |-> [i \in 1 .. nTriCount |-> RenderTriZero]]

FromEditMeshTri ==
    /\ Running
    /\ LET result == TriMeshFromEditMesh(triMesh, Mesh)
       IN  /\ triMesh' = result.triMesh
           /\ status' = result.status
           /\ op' = [name |-> "TriMesh::fromEditMesh", arg |-> triMesh]
           /\ pre' = Mesh
           /\ opsLeft' = opsLeft - 1
           /\ UNCHANGED <<meshVars, debugBuild, meshes, modelVars, aabb, ret, vec>>

InitTriMesh ==
    /\ \E nv \in 0 .. MaxVertices :
          /\ vList = FirstVertices(nv)
          /\ \E n \in 0 .. MaxTris :
                tList \in [1 .. n -> {InputTri(i0, i1, i2, 0, 0, 0) :
                                        i0 \in 0 .. nv - 1, i1 \in 0 .. nv - 1,
                                        i2 \in 0 .. nv - 1}]
    /\ mList = FirstMaterials(1)
    /\ pList = FirstParts(1)
    /\ status = "ok"
    /\ op = [name |-> "default", arg |-> 0]
    /\ pre = Mesh
    /\ opsLeft = 1
    /\ debugBuild \in BOOLEAN
    /\ NoModel
    /\ \E nVertexCount \in 0 .. MaxVertices, nTriCount \in 0 .. MaxTris :
          triMesh = TriMeshFilled(nVertexCount, nTriCount)
    /\ aabb = NoBox
    /\ ret = NoBox
    /\ vec = identity

NextTriMesh == FromEditMeshTri

SpecTriMesh == InitTriMesh /\ [][NextTriMesh]_vars

---------------------------------------------------------------------------
(* copyUvsIntoVertices and optimizeVertexOrder, on the meshes whose
   vertices are new ones or duplicates of the first one *)

(* dupVertex(0) *)
DupOfFirst == InputVertex(1)

CopyUvsIntoVertices ==
    /\ Running
    /\ Apply(Ok(copyUvsIntoVertices(Mesh)), "copyUvsIntoVertices", 0)

OptimizeVertexOrder ==
    /\ Running
    /\ \E removeUnusedVertices \in BOOLEAN :
          \E result \in optimizeVertexOrder(Mesh, removeUnusedVertices) :
              Apply(Ok(result), "optimizeVertexOrder", removeUnusedVertices)

InitOptimize ==
    /\ \E nv \in 1 .. MaxVertices :
          /\ vList \in [1 .. nv -> {DupOfFirst} \cup {InputVertex(k) : k \in 1 .. nv}]
          /\ \A k \in 1 .. nv : vList[k] \in {DupOfFirst, InputVertex(k)}
          /\ \E n \in 0 .. MaxTris :
                tList \in [1 .. n -> {InputTri(i0, i1, i2, 0, 0, 0) :
                                        i0 \in 0 .. nv - 1, i1 \in 0 .. nv - 1,
                                        i2 \in 0 .. nv - 1}]
    /\ mList = FirstMaterials(1)
    /\ pList = FirstParts(1)
    /\ status = "ok"
    /\ op = [name |-> "default", arg |-> 0]
    /\ pre = Mesh
    /\ opsLeft = 1
    /\ debugBuild = FALSE
    /\ NoModel
    /\ NoOther

NextOptimize ==
    \/ CopyUvsIntoVertices
    \/ OptimizeVertexOrder

SpecOptimize == InitOptimize /\ [][NextOptimize]_vars

---------------------------------------------------------------------------
(* The operations of one AABB3 with a point.  A box is any pair of corners,
   inverted ones included, or what empty() leaves. *)

Coords == 0 .. MaxCoord

Points == {Vec3(x, y, z) : x \in Coords, y \in Coords, z \in Coords}

Boxes == {AABB3(min, max) : min \in Points, max \in Points}

(* A step on the box: the box it leaves and what it returns; op.arg holds
   the box before and the argument. *)
ApplyBox(box, result, name, arg) ==
    /\ aabb' = box
    /\ ret' = result
    /\ op' = [name |-> name, arg |-> [box |-> aabb, p |-> arg]]
    /\ UNCHANGED <<meshVars, status, pre, debugBuild, meshes, modelVars, triMesh, vec>>

(* empty(), once, before the operation that is looked at *)
Empty ==
    /\ Running
    /\ op.name = "default"
    /\ ApplyBox(empty(aabb), NoBox, "empty", 0)
    /\ UNCHANGED opsLeft

AddPoint ==
    /\ Running
    /\ \E p \in Points : ApplyBox(add_point(aabb, p), NoBox, "add_point", p)
    /\ opsLeft' = opsLeft - 1

Contains ==
    /\ Running
    /\ \E p \in Points : ApplyBox(aabb, contains(aabb, p), "contains", p)
    /\ opsLeft' = opsLeft - 1

ClosestPointTo ==
    /\ Running
    /\ \E p \in Points :
          ApplyBox(aabb, closest_point_to(aabb, p), "closest_point_to", p)
    /\ opsLeft' = opsLeft - 1

(* The radii reach from a point to the whole range of the boxes. *)
Radii == 0 .. MaxCoord

IntersectsSphere ==
    /\ Running
    /\ \E center \in Points, radius \in Radii :
          ApplyBox(aabb, intersects_sphere(aabb, center, radius),
                   "intersects_sphere", [center |-> center, radius |-> radius])
    /\ opsLeft' = opsLeft - 1

(* The plane normals have components -1, 0, 1, and d covers every value
   of n . c and one more on each side. *)
Normals == {Vec3(x, y, z) : x \in -1 .. 1, y \in -1 .. 1, z \in -1 .. 1}

PlaneDs == (-3 * MaxCoord - 1) .. (3 * MaxCoord + 1)

(* classify_plane, on a box with finite corners: sums with f32::MAX are
   not modelled. *)
ClassifyPlane ==
    /\ Running
    /\ aabb \in Boxes
    /\ \E n \in Normals, d \in PlaneDs :
          ApplyBox(aabb, classify_plane(aabb, n, d), "classify_plane",
                   [n |-> n, d |-> d])
    /\ opsLeft' = opsLeft - 1

InitAabb ==
    /\ vList = <<>> /\ tList = <<>> /\ mList = <<>> /\ pList = <<>>
    /\ status = "ok"
    /\ op = [name |-> "default", arg |-> 0]
    /\ pre = Mesh
    /\ opsLeft = 1
    /\ debugBuild = FALSE
    /\ NoModel
    /\ triMesh = TriMeshDefault
    /\ aabb \in Boxes
    /\ ret = NoBox
    /\ vec = identity

NextAabb ==
    \/ Empty
    \/ AddPoint
    \/ Contains
    \/ ClosestPointTo
    \/ IntersectsSphere
    \/ ClassifyPlane

SpecAabb == InitAabb /\ [][NextAabb]_vars

---------------------------------------------------------------------------
(* The operations of two AABB3 *)

PairCoords == 0 .. MaxPairCoord

PairPoints == {Vec3(x, y, z) : x \in PairCoords, y \in PairCoords, z \in PairCoords}

PairBoxes == {AABB3(lo, hi) : lo \in PairPoints, hi \in PairPoints}

AddAabb ==
    /\ Running
    /\ \E box_aabb3 \in PairBoxes :
          ApplyBox(add_aabb(aabb, box_aabb3), NoBox, "add_aabb", box_aabb3)
    /\ opsLeft' = opsLeft - 1

(* The caller passes no output box, or one it has emptied. *)
IntersectAabbs ==
    /\ Running
    /\ \E box2 \in PairBoxes, box_intersect \in {None, Some(empty(aabb))} :
          ApplyBox(aabb, intersect_aabbs(aabb, box2, box_intersect),
                   "intersect_aabbs",
                   [box2 |-> box2, box_intersect |-> box_intersect])
    /\ opsLeft' = opsLeft - 1

InitPair ==
    /\ vList = <<>> /\ tList = <<>> /\ mList = <<>> /\ pList = <<>>
    /\ status = "ok"
    /\ op = [name |-> "default", arg |-> 0]
    /\ pre = Mesh
    /\ opsLeft = 1
    /\ debugBuild = FALSE
    /\ NoModel
    /\ triMesh = TriMeshDefault
    /\ aabb \in PairBoxes
    /\ ret = NoBox
    /\ vec = identity

NextPair ==
    \/ AddAabb
    \/ IntersectAabbs

SpecPair == InitPair /\ [][NextPair]_vars

---------------------------------------------------------------------------
(* ray_intersect: the ray starts in or one step around the range of the
   boxes and is long enough to cross it. *)

RayOrgs == {Vec3(x, y, z) : x \in -1 .. MaxPairCoord + 1,
                            y \in -1 .. MaxPairCoord + 1,
                            z \in -1 .. MaxPairCoord + 1}

RayDeltas == {Vec3(x, y, z) : x \in -(MaxPairCoord + 1) .. MaxPairCoord + 1,
                              y \in -(MaxPairCoord + 1) .. MaxPairCoord + 1,
                              z \in -(MaxPairCoord + 1) .. MaxPairCoord + 1}

RayIntersect ==
    /\ Running
    /\ \E ray_org \in RayOrgs, ray_delta \in RayDeltas :
          ApplyBox(aabb, ray_intersect(aabb, ray_org, ray_delta), "ray_intersect",
                   [ray_org |-> ray_org, ray_delta |-> ray_delta])
    /\ opsLeft' = opsLeft - 1

NextRay == RayIntersect

SpecRay == InitPair /\ [][NextRay]_vars

---------------------------------------------------------------------------
(* intersect_moving_aabb: a stationary box, a moving box and a displacement
   long enough to carry the moving box across the range of the boxes *)

IntersectMovingAabb ==
    /\ Running
    /\ \E moving_box \in PairBoxes, d \in RayDeltas :
          ApplyBox(aabb, intersect_moving_aabb(aabb, moving_box, d),
                   "intersect_moving_aabb", [moving_box |-> moving_box, d |-> d])
    /\ opsLeft' = opsLeft - 1

NextMoving == IntersectMovingAabb

SpecMoving == InitPair /\ [][NextMoving]_vars

---------------------------------------------------------------------------
(* The scalar operators on one Vector3 *)

Scalars == -MaxScalar .. MaxScalar

Vectors == {Vector3(x, y, z) : x \in Scalars, y \in Scalars, z \in Scalars}

(* A step on the vector: the vector it leaves and what it returns; op.arg
   holds the vector before and the scalar. *)
ApplyVector(v, result, name, a) ==
    /\ vec' = v
    /\ ret' = result
    /\ op' = [name |-> name, arg |-> [v |-> vec, a |-> a]]
    /\ opsLeft' = opsLeft - 1
    /\ UNCHANGED <<meshVars, status, pre, debugBuild, meshes, modelVars, triMesh, aabb>>

MulVectorByScalar ==
    /\ Running
    /\ \E a \in Scalars : ApplyVector(vec, Vector3_mul(vec, a), "&v * a", a)

MulScalarByVector ==
    /\ Running
    /\ \E a \in Scalars : ApplyVector(vec, f32_mul(a, vec), "a * &v", a)

DivVectorByScalar ==
    /\ Running
    /\ \E a \in Scalars \ {0} : ApplyVector(vec, Vector3_div(vec, a), "&v / a", a)

MulAssign ==
    /\ Running
    /\ \E a \in Scalars : ApplyVector(mul_assign(vec, a), NoBox, "v *= a", a)

DivAssign ==
    /\ Running
    /\ \E a \in Scalars : ApplyVector(div_assign(vec, a), NoBox, "v /= a", a)

InitVector ==
    /\ vList = <<>> /\ tList = <<>> /\ mList = <<>> /\ pList = <<>>
    /\ status = "ok"
    /\ op = [name |-> "default", arg |-> 0]
    /\ pre = Mesh
    /\ opsLeft = 1
    /\ debugBuild = FALSE
    /\ NoModel
    /\ triMesh = TriMeshDefault
    /\ aabb = NoBox
    /\ ret = NoBox
    /\ vec \in Vectors

NextVector ==
    \/ MulVectorByScalar
    \/ MulScalarByVector
    \/ DivVectorByScalar
    \/ MulAssign
    \/ DivAssign

SpecVector == InitVector /\ [][NextVector]_vars

---------------------------------------------------------------------------
(* import_s3d of any file within the bounds *)

(* The material indices of the triangle lines: unset ones and the first
   texture *)
MaterialIndices == {-2, -1, 0}

(* What a line of the part list says of its own part, and by how much its
   first-triangle field is off: import_s3d only tests the first-vertex and
   first-triangle fields for equality with the counts of the lines before. *)
PartLines == [partNumVerts : 0 .. 1, partNumTris : 0 .. MaxTris, skew : 0 .. 1]

(* The vertices and the triangles of the first n lines *)
RECURSIVE VertsBefore(_, _)
VertsBefore(lines, n) ==
    IF n = 0 THEN 0 ELSE VertsBefore(lines, n - 1) + lines[n].partNumVerts

RECURSIVE TrisBefore(_, _)
TrisBefore(lines, n) ==
    IF n = 0 THEN 0 ELSE TrisBefore(lines, n - 1) + lines[n].partNumTris

(* The part list of a file *)
PartList(lines) ==
    [i \in 1 .. Len(lines) |->
        [partFirstVert |-> VertsBefore(lines, i - 1),
         partNumVerts |-> lines[i].partNumVerts,
         partFirstTri |-> TrisBefore(lines, i - 1) + lines[i].skew,
         partNumTris |-> lines[i].partNumTris]]

(* A file of another version, whatever its header counts *)
OtherVersion(numTextures, numTris) ==
    [version |-> "102", numTextures |-> numTextures, numTris |-> numTris,
     numVerts |-> 0, partList |-> <<>>, triList |-> <<>>]

ImportS3d ==
    /\ Running
    /\ \E numTextures \in 0 .. MaxMaterials,
          numTris \in 0 .. MaxTris,
          numVerts \in 0 .. 1,
          numParts \in 0 .. MaxParts,
          count \in 0 .. MaxTris :
          \E lines \in [1 .. numParts -> PartLines],
             triList \in [1 .. count -> MaterialIndices] :
             \E file \in {[version |-> "103", numTextures |-> numTextures,
                           numTris |-> numTris, numVerts |-> numVerts,
                           partList |-> PartList(lines), triList |-> triList]}
                          \cup (IF numVerts = 0 /\ numParts = 0 /\ count = 0
                                THEN {OtherVersion(numTextures, numTris)}
                                ELSE {}) :
                Apply(import_s3d(file), "import_s3d", file)

InitImport ==
    /\ vList = <<>> /\ tList = <<>> /\ mList = <<>> /\ pList = <<>>
    /\ status = "ok"
    /\ op = [name |-> "default", arg |-> 0]
    /\ pre = Mesh
    /\ opsLeft = 1
    /\ debugBuild = FALSE
    /\ NoModel
    /\ NoOther

NextImport == ImportS3d

SpecImport == InitImport /\ [][NextImport]_vars

---------------------------------------------------------------------------
(* What the claims speak of *)

ValidTri(mesh, t) ==
    /\ \A j \in 1 .. 3 : t.v[j].index < Len(mesh.vList)
    /\ t.material < Len(mesh.mList)
    /\ t.part < Len(mesh.pList)

ValidMesh(mesh) == \A k \in 1 .. Len(mesh.tList) : ValidTri(mesh, mesh.tList[k])

ReferencesVertex(t, i) == \E j \in 1 .. 3 : t.v[j].index = i

CornerIndices(t) == [j \in 1 .. 3 |-> t.v[j].index]

(* An index as it is once the entry i of its list is gone *)
Moved(index, i) == IF index > i THEN index - 1 ELSE index

(* The elements of s at the positions of S, in the order of s *)
RECURSIVE Pick(_, _, _)
Pick(s, S, k) ==
    IF k > Len(s) THEN <<>>
    ELSE (IF k \in S THEN <<s[k]>> ELSE <<>>) \o Pick(s, S, k + 1)

(* The UV pairs of the corners that reference vertex n *)
UvsAt(mesh, n) ==
    {<<mesh.tList[k].v[j].u, mesh.tList[k].v[j].v>> :
        <<k, j>> \in {c \in (1 .. Len(mesh.tList)) \X (1 .. 3) :
                         mesh.tList[c[1]].v[c[2]].index = n}}

(* A mesh of two triangles that both use vertex 0, with two distinct UV
   pairs at that vertex, in which the corners at any other vertex agree on
   their UVs and no other vertex is at the place of vertex 0 *)
SharesOnlyVertex0(mesh) ==
    /\ Len(mesh.tList) = 2
    /\ \A k \in 1 .. 2 : ReferencesVertex(mesh.tList[k], 0)
    /\ Cardinality(UvsAt(mesh, 0)) = 2
    /\ \A n \in Indices(mesh.vList) :
          n # 0 => /\ Cardinality(UvsAt(mesh, n)) <= 1
                   /\ At(mesh.vList, n).p # At(mesh.vList, 0).p

(* C1: after any sequence of the add operations (with in-range indices), of
   the delete operations (each with an index valid for its own list), of
   deleteUnusedMaterials, deleteEmptyParts, deleteMarkedTris,
   deleteDegenerateTris and detachAllFaces, every triangle's vertex indices
   are below the vertex count, its material index below the material count
   and its part index below the part count. *)
C1_IndicesStayValid == ValidMesh(Mesh)

(* C2: after deleteVertex(i) with a valid index i no triangle that
   referenced vertex i remains (every triangle left is one that did not
   reference i); each corner of a triangle left that referenced an index
   above i references that index less one, and each corner that referenced
   an index below i is unchanged; and the vertex count is one less. *)
C2_DeleteVertex ==
    (op.name = "deleteVertex" /\ InRange(pre.vList, op.arg)) =>
        /\ status = "ok"
        /\ Len(vList) = Len(pre.vList) - 1
        /\ \E S \in SUBSET {k \in 1 .. Len(pre.tList) :
                              ~ReferencesVertex(pre.tList[k], op.arg)} :
              LET survivors == Pick(pre.tList, S, 1)
              IN  /\ Len(tList) = Len(survivors)
                  /\ \A k \in 1 .. Len(tList) : \A j \in 1 .. 3 :
                        tList[k].v[j].index
                            = Moved(survivors[k].v[j].index, op.arg)

(* A triangle that referenced the deleted vertex is gone, and a triangle
   with a corner above the deleted vertex is left. *)
C2_Witness ==
    /\ op.name = "deleteVertex"
    /\ status = "ok"
    /\ \E k \in 1 .. Len(pre.tList) : ReferencesVertex(pre.tList[k], op.arg)
    /\ \E k \in 1 .. Len(pre.tList) :
          /\ ~ReferencesVertex(pre.tList[k], op.arg)
          /\ pre.tList[k].mark # 1
          /\ \E j \in 1 .. 3 : pre.tList[k].v[j].index > op.arg
    /\ Len(tList) > 0

(* C3: deleteMaterial(i) and deletePart(i), with i valid for the material
   list and for the part list, remove exactly the triangles whose material
   (part) index is i, lower by one the material (part) index of every
   triangle left whose index was above i, leave the index of the other kind
   and the vertex indices of the triangles left as they were, and shrink
   the material (part) list by exactly one entry. *)
C3_DeleteMaterialOrPart ==
    /\ (op.name = "deleteMaterial" /\ InRange(pre.mList, op.arg)) =>
          LET keep(t) == t.material # op.arg
              survivors == SelectSeq(pre.tList, keep)
          IN  /\ status = "ok"
              /\ Len(mList) = Len(pre.mList) - 1
              /\ Len(tList) = Len(survivors)
              /\ \A k \in 1 .. Len(tList) :
                    /\ tList[k].material = Moved(survivors[k].material, op.arg)
                    /\ tList[k].part = survivors[k].part
                    /\ CornerIndices(tList[k]) = CornerIndices(survivors[k])
    /\ (op.name = "deletePart" /\ InRange(pre.pList, op.arg)) =>
          LET keep(t) == t.part # op.arg
              survivors == SelectSeq(pre.tList, keep)
          IN  /\ status = "ok"
              /\ Len(pList) = Len(pre.pList) - 1
              /\ Len(tList) = Len(survivors)
              /\ \A k \in 1 .. Len(tList) :
                    /\ tList[k].part = Moved(survivors[k].part, op.arg)
                    /\ tList[k].material = survivors[k].material
                    /\ CornerIndices(tList[k]) = CornerIndices(survivors[k])

(* C4: on a mesh with valid triangle indices, deleteUnusedMaterials leaves
   only materials that some triangle references, and every triangle's
   material index valid; deleteEmptyParts leaves only parts that some
   triangle references, and every triangle's part index valid. *)
C4_OnlyUsedAreLeft ==
    /\ (op.name = "deleteUnusedMaterials" /\ ValidMesh(pre)) =>
          /\ status = "ok"
          /\ \A m \in Indices(mList) :
                \E k \in 1 .. Len(tList) : tList[k].material = m
          /\ \A k \in 1 .. Len(tList) : InRange(mList, tList[k].material)
    /\ (op.name = "deleteEmptyParts" /\ ValidMesh(pre)) =>
          /\ status = "ok"
          /\ \A q \in Indices(pList) :
                \E k \in 1 .. Len(tList) : tList[k].part = q
          /\ \A k \in 1 .. Len(tList) : InRange(pList, tList[k].part)

(* deleteUnusedMaterials has deleted a material and has left one. *)
C4_Witness ==
    /\ op.name = "deleteUnusedMaterials"
    /\ ValidMesh(pre)
    /\ status = "ok"
    /\ 0 < Len(mList)
    /\ Len(mList) < Len(pre.mList)

(* C5: deleteUnusedMaterials is idempotent: on a mesh with valid triangle
   indices a second call right after the first leaves the vertex, triangle,
   material and part lists as the first call left them. *)
C5_DeleteUnusedMaterialsIdempotent ==
    (op.name = "deleteUnusedMaterials" /\ ValidMesh(pre) /\ status = "ok") =>
        deleteUnusedMaterials(Mesh) = Ok(Mesh)

(* The first call has deleted a material and moved a triangle's index. *)
C5_Witness ==
    /\ op.name = "deleteUnusedMaterials"
    /\ ValidMesh(pre)
    /\ status = "ok"
    /\ Len(mList) < Len(pre.mList)
    /\ \E k \in 1 .. Len(tList) : tList[k].material # pre.tList[k].material

(* C6: the assertion after the compaction (initial count - removed count =
   new count) of deleteUnusedMaterials and of deleteEmptyParts does not
   fail on a mesh whose triangles hold valid material and part indices. *)
C6_CompactionAssertionHolds ==
    (op.name \in {"deleteUnusedMaterials", "deleteEmptyParts"} /\ ValidMesh(pre))
        => status # "assertion failed"

(* deleteEmptyParts has compacted the part list and so has run its
   assertion. *)
C6_Witness ==
    /\ op.name = "deleteEmptyParts"
    /\ ValidMesh(pre)
    /\ status = "ok"
    /\ 0 < Len(pList)
    /\ Len(pList) < Len(pre.pList)

(* C7: deleteMarkedTris(m) removes exactly the triangles whose mark is m,
   deleteDegenerateTris exactly the triangles with the same vertex index at
   two corners; the triangles left keep their order and contents, and the
   vertex, material and part lists are unchanged. *)
C7_OnlyTrianglesRemoved ==
    /\ op.name = "deleteMarkedTris" =>
          LET keep(t) == t.mark # op.arg
          IN  /\ status = "ok"
              /\ tList = SelectSeq(pre.tList, keep)
              /\ vList = pre.vList /\ mList = pre.mList /\ pList = pre.pList
    /\ op.name = "deleteDegenerateTris" =>
          LET keep(t) == ~\E j \in 1 .. 3, k \in 1 .. 3 :
                              j # k /\ t.v[j].index = t.v[k].index
          IN  /\ status = "ok"
              /\ tList = SelectSeq(pre.tList, keep)
              /\ vList = pre.vList /\ mList = pre.mList /\ pList = pre.pList

(* deleteMarkedTris has removed a triangle and has left another. *)
C7_Witness ==
    /\ op.name = "deleteMarkedTris"
    /\ 0 < Len(tList)
    /\ Len(tList) < Len(pre.tList)

(* C8: after detachAllFaces on any mesh, one with no triangle included,
   the vertex list has 3 * triangle count entries, corner j of triangle i
   references vertex 3i+j, and that vertex has the position, normal and UV
   of the vertex the corner referenced before. *)
C8_DetachAllFaces ==
    (op.name = "detachAllFaces" /\ ValidMesh(pre)) =>
        /\ status = "ok"
        /\ Len(tList) = Len(pre.tList)
        /\ Len(vList) = 3 * Len(tList)
        /\ \A i \in Indices(tList) : \A j \in 0 .. 2 :
              LET new_v == At(vList, 3 * i + j)
                  old_v == At(pre.vList, At(pre.tList, i).v[j + 1].index)
              IN  /\ At(tList, i).v[j + 1].index = 3 * i + j
                  /\ new_v.p = old_v.p
                  /\ new_v.normal = old_v.normal
                  /\ new_v.u = old_v.u
                  /\ new_v.v = old_v.v

(* C9: extractParts on a mesh with N parts produces N meshes; mesh k has
   exactly one part, holds exactly the triangles whose part index was k,
   in order, and its vertex and material lists hold exactly the vertices
   and materials those triangles reference, each once. *)
C9_ExtractParts ==
    (op.name = "extractParts" /\ ValidMesh(pre)) =>
        /\ Len(meshes) = Len(pre.pList)
        /\ \A q \in Indices(pre.pList) :
              LET dMesh == At(meshes, q)
                  inPart(t) == t.part = q
                  src == SelectSeq(pre.tList, inPart)
              IN  /\ Len(dMesh.pList) = 1
                  /\ Len(dMesh.tList) = Len(src)
                  /\ Len(dMesh.vList) = Cardinality(
                         {src[n].v[j].index : n \in 1 .. Len(src), j \in 1 .. 3})
                  /\ Len(dMesh.mList) = Cardinality(
                         {src[n].material : n \in 1 .. Len(src)})
                  /\ \A n \in 1 .. Len(src) :
                        /\ dMesh.tList[n].part = 0
                        /\ At(dMesh.mList, dMesh.tList[n].material).diffuseTextureName
                             = At(pre.mList, src[n].material).diffuseTextureName
                        /\ \A j \in 1 .. 3 :
                              LET new_v == At(dMesh.vList, dMesh.tList[n].v[j].index)
                                  old_v == At(pre.vList, src[n].v[j].index)
                              IN  /\ new_v.p = old_v.p
                                  /\ new_v.normal = old_v.normal
                                  /\ new_v.u = old_v.u
                                  /\ new_v.v = old_v.v

(* C10: Model::fromEditMesh on a mesh with at least one part completes
   without a failed assertion or an index out of bounds, and leaves as
   many TriMesh entries, and as large a partCount, as the sum over the
   parts of the number of distinct materials the part's triangles use. *)
C10_FromEditMesh ==
    (op.name = "fromEditMesh" /\ ValidMesh(pre) /\ Len(pre.pList) >= 1) =>
        LET used == {<<pre.tList[n].part, pre.tList[n].material>> :
                        n \in 1 .. Len(pre.tList)}
        IN  /\ status = "ok"
            /\ Len(partMeshList) = Cardinality(used)
            /\ partCount = Cardinality(used)

(* C11: after TriMesh::fromEditMesh on a new TriMesh and a mesh with V
   vertices and T >= 1 triangles, the TriMesh has V vertices with the
   positions of the mesh's vertices in order and T triangles with the
   corner indices of the mesh's triangles, and the mesh is as it was. *)
C11_TriMeshFromEditMesh ==
    (/\ op.name = "TriMesh::fromEditMesh"
     /\ op.arg = TriMeshDefault
     /\ Len(pre.tList) >= 1) =>
        /\ status = "ok"
        /\ Mesh = pre
        /\ triMesh.vertexCount = Len(pre.vList)
        /\ Len(triMesh.vertexList) = Len(pre.vList)
        /\ \A i \in 1 .. Len(pre.vList) : triMesh.vertexList[i].p = pre.vList[i].p
        /\ triMesh.triCount = Len(pre.tList)
        /\ Len(triMesh.triList) = Len(pre.tList)
        /\ \A k \in 1 .. Len(pre.tList) :
              <<triMesh.triList[k].a, triMesh.triList[k].b, triMesh.triList[k].c>>
                  = CornerIndices(pre.tList[k])

(* C12: after copyUvsIntoVertices every triangle corner references a
   vertex that carries the corner's own (u, v) and has the position and the
   normal of the vertex the corner referenced before; and on a mesh of two
   triangles that share vertex 0, with distinct UVs at that corner, and
   nothing else, the vertex count is one more. *)
C12_CopyUvsIntoVertices ==
    op.name = "copyUvsIntoVertices" =>
        /\ Len(tList) = Len(pre.tList)
        /\ \A k \in 1 .. Len(tList) : \A j \in 1 .. 3 :
              LET own == tList[k].v[j]
                  new_v == At(vList, own.index)
                  old_v == At(pre.vList, pre.tList[k].v[j].index)
              IN  /\ own.u = pre.tList[k].v[j].u
                  /\ own.v = pre.tList[k].v[j].v
                  /\ new_v.u = own.u
                  /\ new_v.v = own.v
                  /\ new_v.p = old_v.p
                  /\ new_v.normal = old_v.normal
        /\ SharesOnlyVertex0(pre) => Len(vList) = Len(pre.vList) + 1

(* Two triangles share vertex 0 with distinct UVs, and a vertex was added. *)
C12_Witness ==
    /\ op.name = "copyUvsIntoVertices"
    /\ SharesOnlyVertex0(pre)
    /\ Len(vList) = Len(pre.vList) + 1
    /\ \E j \in 1 .. 3 : tList[2].v[j].index = Len(pre.vList)
    /\ ~isDegenerate(pre.tList[1])

(* The vertex index of corner d, in scan order, of a mesh *)
CornerIndex(mesh, d) == At(mesh.tList, d \div 3).v[(d % 3) + 1].index

(* The first corner, in scan order, that uses vertex n *)
FirstUse(mesh, n) ==
    CHOOSE d \in 0 .. 3 * Len(mesh.tList) - 1 :
        /\ CornerIndex(mesh, d) = n
        /\ \A e \in 0 .. d - 1 : CornerIndex(mesh, e) # n

(* C13: optimizeVertexOrder(true) keeps, for every triangle corner, the
   position, normal, u and v of the vertex it references; the vertices end
   up in the order of their first use in a scan of the triangles in list
   order; and as many vertices are left as the triangles reference. *)
C13_OptimizeVertexOrder ==
    (op.name = "optimizeVertexOrder" /\ op.arg = TRUE) =>
        LET usedBefore == {CornerIndex(pre, d) : d \in 0 .. 3 * Len(pre.tList) - 1}
        IN  /\ Len(tList) = Len(pre.tList)
            /\ Len(vList) = Cardinality(usedBefore)
            /\ \A d \in 0 .. 3 * Len(tList) - 1 :
                  LET new_v == At(vList, CornerIndex(Mesh, d))
                      old_v == At(pre.vList, CornerIndex(pre, d))
                  IN  /\ new_v.p = old_v.p
                      /\ new_v.normal = old_v.normal
                      /\ new_v.u = old_v.u
                      /\ new_v.v = old_v.v
                      /\ CornerIndex(Mesh, d) = Cardinality(
                             {n \in usedBefore :
                                 FirstUse(pre, n) < FirstUse(pre, CornerIndex(pre, d))})

(* An unused vertex was dropped and the vertices used were reordered. *)
C13_Witness ==
    /\ op.name = "optimizeVertexOrder"
    /\ op.arg = TRUE
    /\ Len(pre.tList) = 2
    /\ 1 < Len(vList)
    /\ Len(vList) < Len(pre.vList)
    /\ \E d \in 0 .. 3 * Len(tList) - 1 : CornerIndex(Mesh, d) # CornerIndex(pre, d)

(* C14: for every point p, empty() followed by add_point(p) leaves the box
   not empty and with min = max = p on all three axes. *)
C14_AddPointToEmptied ==
    (op.name = "add_point" /\ op.arg.box = empty(op.arg.box)) =>
        /\ ~is_empty(aabb)
        /\ aabb.min = op.arg.p
        /\ aabb.max = op.arg.p

(* The smaller and the larger of two coordinates *)
Smaller(a, b) == IF a < b THEN a ELSE b

Larger(a, b) == IF a > b THEN a ELSE b

(* C15: for every box that is not empty and every point p, add_point(p)
   leaves each min component the smaller of the old min and p, and each
   max component the larger of the old max and p. *)
C15_AddPointExpands ==
    (op.name = "add_point" /\ ~is_empty(op.arg.box)) =>
        LET old == op.arg.box
            p == op.arg.p
        IN  /\ aabb.min = Vec3(Smaller(old.min.x, p.x), Smaller(old.min.y, p.y),
                               Smaller(old.min.z, p.z))
            /\ aabb.max = Vec3(Larger(old.max.x, p.x), Larger(old.max.y, p.y),
                               Larger(old.max.z, p.z))

(* C17: for every point P and every box B, empty or not, B.contains(P)
   is true if and only if B.closest_point_to(P) is P. *)
C17_ContainsIffClosestIsSelf ==
    /\ op.name = "contains" =>
          (ret <=> closest_point_to(op.arg.box, op.arg.p) = op.arg.p)
    /\ op.name = "closest_point_to" =>
          (ret = op.arg.p <=> contains(op.arg.box, op.arg.p))

(* contains has answered true for a point on the min face of x of a box
   with an inside. *)
C17_Witness ==
    /\ op.name = "contains"
    /\ ret = TRUE
    /\ op.arg.p.x = op.arg.box.min.x
    /\ op.arg.box.min.x < op.arg.box.max.x

(* C16: for all boxes A and B that are not empty, A.add_aabb(B) leaves A
   the per-axis union of the old A and B: the min of the mins and the max
   of the maxes. *)
C16_AddAabbIsUnion ==
    (op.name = "add_aabb" /\ ~is_empty(op.arg.box) /\ ~is_empty(op.arg.p)) =>
        LET a == op.arg.box
            b == op.arg.p
        IN  /\ aabb.min = Vec3(Smaller(a.min.x, b.min.x), Smaller(a.min.y, b.min.y),
                               Smaller(a.min.z, b.min.z))
            /\ aabb.max = Vec3(Larger(a.max.x, b.max.x), Larger(a.max.y, b.max.y),
                               Larger(a.max.z, b.max.z))

(* C18: intersect_aabbs(A, B) returns the boolean and writes the box that
   intersect_aabbs(B, A) returns and writes; when it returns true the box
   written contains every point that A and B both contain, and when it
   returns false the output box is not written. *)
C18_IntersectSymmetric ==
    op.name = "intersect_aabbs" =>
        LET a == op.arg.box
            b == op.arg.p.box2
            out == op.arg.p.box_intersect
        IN  /\ ret = intersect_aabbs(b, a, out)
            /\ (ret.result /\ out # None) =>
                  \A P \in PairPoints :
                      (contains(a, P) /\ contains(b, P))
                          => contains(ret.box_intersect[1], P)
            /\ ~ret.result => ret.box_intersect = out

(* Two boxes that overlap in part, neither inside the other, and their
   intersection written. *)
C18_Witness ==
    /\ op.name = "intersect_aabbs"
    /\ ret.result
    /\ op.arg.p.box_intersect # None
    /\ ~is_empty(op.arg.box)
    /\ ~is_empty(op.arg.p.box2)
    /\ ret.box_intersect[1] # op.arg.box
    /\ ret.box_intersect[1] # op.arg.p.box2

(* n . c *)
Dot(a, b) == a.x * b.x + a.y * b.y + a.z * b.z

(* C20: for every box that is not empty and every plane n . x = d,
   classify_plane(n, d) returns +1 exactly when every corner c has
   n . c >= d, -1 exactly when that is not so and every corner has
   n . c <= d, and 0 exactly when some corner has n . c < d and some corner
   has n . c > d. *)
C20_ClassifyPlaneByCorners ==
    (op.name = "classify_plane" /\ ~is_empty(op.arg.box)) =>
        LET n == op.arg.p.n
            d == op.arg.p.d
            side == {Dot(n, corner(op.arg.box, i)) : i \in 0 .. 7}
            front == \A e \in side : e >= d
            back == \A e \in side : e <= d
        IN  /\ ret = 1 <=> front
            /\ ret = -1 <=> (~front /\ back)
            /\ ret = 0 <=> ((\E e \in side : e < d) /\ (\E e \in side : e > d))

(* A box with an inside that touches the plane from the front: the plane
   passes through one of its corners. *)
C20_Witness ==
    /\ op.name = "classify_plane"
    /\ ret = 1
    /\ \A i \in 0 .. 7 : \A j \in 0 .. 7 :
          i # j => corner(op.arg.box, i) # corner(op.arg.box, j)
    /\ ~is_empty(op.arg.box)
    /\ Cardinality({i \in 0 .. 7 :
                       Dot(op.arg.p.n, corner(op.arg.box, i)) = op.arg.p.d}) = 1

(* C19: ray_intersect returns exactly 0.0 when the ray origin is inside
   the box, bounds included; otherwise it returns f32::MAX for no
   intersection or a t with 0 < t <= 1 such that origin + t * delta is
   within the bounds of the box on all three axes. *)
C19_RayIntersect ==
    op.name = "ray_intersect" =>
        LET b == op.arg.box
            org == op.arg.p.ray_org
            delta == op.arg.p.ray_delta
        IN  IF contains(b, org)
            THEN ret = Quot(0, 1)
            ELSE \/ ret = k_no_intersection
                 \/ /\ ret.num > 0
                    /\ ret.num <= ret.den
                    /\ ~Misses(org.x, delta.x, ret, b.min.x, b.max.x)
                    /\ ~Misses(org.y, delta.y, ret, b.min.y, b.max.y)
                    /\ ~Misses(org.z, delta.z, ret, b.min.z, b.max.z)

(* The product of the numbers 1 .. n *)
RECURSIVE Factorial(_)
Factorial(n) == IF n <= 1 THEN 1 ELSE n * Factorial(n - 1)

(* The times 0, 1/g, 2/g, .. 1, with g twice a common multiple of the
   displacements: every face of the moving box meets a face of the other
   box at a multiple of 2/g, so that a time between any two such meetings
   is among them. *)
GridTimes ==
    LET g == 2 * Factorial(MaxPairCoord + 1)
    IN  {Quot(k, g) : k \in 0 .. g}

(* On one axis, at time t, the moving interval [lo, hi] + t * d and the
   interval [s_lo, s_hi] have a point in common *)
TouchesAt(t, s_lo, s_hi, lo, hi, d) ==
    /\ lo * t.den + d * t.num <= s_hi * t.den
    /\ hi * t.den + d * t.num >= s_lo * t.den

(* ... and have more than a face in common *)
OverlapsAt(t, s_lo, s_hi, lo, hi, d) ==
    /\ lo * t.den + d * t.num < s_hi * t.den
    /\ hi * t.den + d * t.num > s_lo * t.den

BoxesTouchAt(t, s, m, d) ==
    /\ TouchesAt(t, s.min.x, s.max.x, m.min.x, m.max.x, d.x)
    /\ TouchesAt(t, s.min.y, s.max.y, m.min.y, m.max.y, d.y)
    /\ TouchesAt(t, s.min.z, s.max.z, m.min.z, m.max.z, d.z)

BoxesOverlapAt(t, s, m, d) ==
    /\ OverlapsAt(t, s.min.x, s.max.x, m.min.x, m.max.x, d.x)
    /\ OverlapsAt(t, s.min.y, s.max.y, m.min.y, m.max.y, d.y)
    /\ OverlapsAt(t, s.min.z, s.max.z, m.min.z, m.max.z, d.z)

(* C21: intersect_moving_aabb(stationary, moving, d) returns f32::MAX or a
   t_enter in [0, 1]; when it returns t_enter the moving box moved by
   t_enter * d overlaps or touches the stationary box on all three axes and
   at no time before t_enter do the boxes strictly overlap on all axes; when
   it returns f32::MAX the boxes strictly overlap on all axes at no time in
   [0, 1]. *)
C21_IntersectMovingAabb ==
    op.name = "intersect_moving_aabb" =>
        LET s == op.arg.box
            m == op.arg.p.moving_box
            d == op.arg.p.d
        IN  IF ret = k_no_intersection
            THEN \A t \in GridTimes : ~BoxesOverlapAt(t, s, m, d)
            ELSE /\ ret.num >= 0
                 /\ ret.num <= ret.den
                 /\ BoxesTouchAt(ret, s, m, d)
                 /\ \A t \in GridTimes :
                       Greater(ret, t) => ~BoxesOverlapAt(t, s, m, d)

(* C22: intersects_sphere(center, radius) returns true if and only if the
   squared distance from center to closest_point_to(center) is at most the
   square of radius: a sphere that touches the box, and a sphere of radius
   zero with its centre in the box, intersect it. *)
C22_IntersectsSphere ==
    op.name = "intersects_sphere" =>
        LET c == op.arg.p.center
            r == op.arg.p.radius
        IN  ret <=> (distance_squared(c, closest_point_to(op.arg.box, c)) <= r * r)

(* C23: for every Vector3 v and scalar a, &v * a and a * &v are the same
   vector, (v.x * a, v.y * a, v.z * a); with a = 1.0 on either side the
   product is equal to v. *)
C23_ScalarProductCommutes ==
    /\ op.name = "&v * a" =>
          /\ ret = Vector3(op.arg.v.x * op.arg.a, op.arg.v.y * op.arg.a,
                           op.arg.v.z * op.arg.a)
          /\ ret = f32_mul(op.arg.a, op.arg.v)
          /\ op.arg.a = 1 => ret = op.arg.v
    /\ op.name = "a * &v" =>
          /\ ret = Vector3(op.arg.v.x * op.arg.a, op.arg.v.y * op.arg.a,
                           op.arg.v.z * op.arg.a)
          /\ ret = Vector3_mul(op.arg.v, op.arg.a)
          /\ op.arg.a = 1 => ret = op.arg.v

(* A scalar other than 0 and 1 times a vector of three different
   components, none of them zero *)
C23_Witness ==
    /\ op.name = "a * &v"
    /\ op.arg.a \notin {0, 1}
    /\ Cardinality({op.arg.v.x, op.arg.v.y, op.arg.v.z, 0}) = 4
    /\ ret # op.arg.v

(* The integer n is the quotient q *)
IsRatio(n, q) == n * q.den = q.num

(* C30: for every Vector3 v and scalar a that is not zero, v /= a leaves v
   equal to &v / a, each component divided by a, as v *= a leaves v equal to
   &v * a. *)
C30_DivAssignDivides ==
    /\ (op.name = "v /= a" /\ op.arg.a # 0) =>
          LET q == Vector3_div(op.arg.v, op.arg.a)
          IN  /\ IsRatio(vec.x, q.x)
              /\ IsRatio(vec.y, q.y)
              /\ IsRatio(vec.z, q.z)
    /\ op.name = "v *= a" => vec = Vector3_mul(op.arg.v, op.arg.a)

(* The names of a material list and of a part list, in order *)
MaterialNames(list) == [n \in 1 .. Len(list) |-> list[n].diffuseTextureName]

PartNames(list) == [n \in 1 .. Len(list) |-> list[n].name]

(* C24: deleteUnusedMaterials (deleteEmptyParts) keeps the materials (parts)
   that are left in their relative order with their names; after the call
   every triangle refers to a material (part) of the name it referred to
   before; and the number and the order of the triangles, their vertex
   indices and the vertex list are as they were. *)
C24_CompactionKeepsNames ==
    /\ (op.name = "deleteUnusedMaterials" /\ ValidMesh(pre)) =>
          /\ status = "ok"
          /\ \E S \in SUBSET (1 .. Len(pre.mList)) :
                MaterialNames(mList) = MaterialNames(Pick(pre.mList, S, 1))
          /\ Len(tList) = Len(pre.tList)
          /\ \A k \in 1 .. Len(tList) :
                /\ InRange(mList, tList[k].material)
                /\ At(mList, tList[k].material).diffuseTextureName
                     = At(pre.mList, pre.tList[k].material).diffuseTextureName
                /\ tList[k].v = pre.tList[k].v
                /\ tList[k].part = pre.tList[k].part
          /\ vList = pre.vList
    /\ (op.name = "deleteEmptyParts" /\ ValidMesh(pre)) =>
          /\ status = "ok"
          /\ \E S \in SUBSET (1 .. Len(pre.pList)) :
                PartNames(pList) = PartNames(Pick(pre.pList, S, 1))
          /\ Len(tList) = Len(pre.tList)
          /\ \A k \in 1 .. Len(tList) :
                /\ InRange(pList, tList[k].part)
                /\ At(pList, tList[k].part).name
                     = At(pre.pList, pre.tList[k].part).name
                /\ tList[k].v = pre.tList[k].v
                /\ tList[k].material = pre.tList[k].material
          /\ vList = pre.vList

(* deleteEmptyParts has removed the first part and kept the second, and a
   triangle of the second part has had its part index moved. *)
C24_Witness ==
    /\ op.name = "deleteEmptyParts"
    /\ ValidMesh(pre)
    /\ status = "ok"
    /\ Len(pre.pList) = 2
    /\ PartNames(pList) = <<NameOf(2)>>
    /\ \E k \in 1 .. Len(tList) : pre.tList[k].part = 1 /\ tList[k].part = 0

(* C26: in a release build (debug assertions off) each of deleteVertex,
   deleteTri, deleteMaterial and deletePart, called with an index that is
   at or past the length of the list it deletes from, returns without a
   panic and leaves the vertex, triangle, material and part lists as they
   were. *)
C26_PastEndIsIgnored ==
    (/\ ~debugBuild
     /\ \/ op.name = "deleteVertex" /\ op.arg >= Len(pre.vList)
        \/ op.name = "deleteTri" /\ op.arg >= Len(pre.tList)
        \/ op.name = "deleteMaterial" /\ op.arg >= Len(pre.mList)
        \/ op.name = "deletePart" /\ op.arg >= Len(pre.pList))
    => (status = "ok" /\ Mesh = pre)

(* C27: deleteVertex(i) removes only triangles that referenced vertex i,
   whatever the marks of the triangles were before the call: every triangle
   that does not reference vertex i is left. *)
C27_DeleteVertexIgnoresStaleMarks ==
    (op.name = "deleteVertex" /\ InRange(pre.vList, op.arg)) =>
        LET keep(t) == ~ReferencesVertex(t, op.arg)
            survivors == SelectSeq(pre.tList, keep)
        IN  /\ status = "ok"
            /\ Len(tList) = Len(survivors)
            /\ \A k \in 1 .. Len(tList) : \A j \in 1 .. 3 :
                  tList[k].v[j].index = Moved(survivors[k].v[j].index, op.arg)

(* C28: deleteTri(i) with 0 <= i < triangle count removes exactly triangle
   i, keeps the other triangles in their order and leaves the vertex,
   material and part lists as they were, however many vertices the mesh
   has. *)
C28_DeleteTri ==
    (op.name = "deleteTri" /\ InRange(pre.tList, op.arg)) =>
        /\ status = "ok"
        /\ tList = Pick(pre.tList, (1 .. Len(pre.tList)) \ {op.arg + 1}, 1)
        /\ vList = pre.vList
        /\ mList = pre.mList
        /\ pList = pre.pList

(* C29: after any sequence of Model::new, allocateMemory, freeMemory and
   fromEditMesh, partCount is the length of partMeshList and of
   partTextureList, so that every index below partCount, as render,
   renderPart, getPartMesh, getPartTexture and setPartTextureName use it,
   is in the bounds of both lists. *)
C29_PartCountIsListLength ==
    /\ partCount = Len(partMeshList)
    /\ partCount = Len(partTextureList)

(* The triangles whose line in the file has a negative material index *)
Untextured_In(file, triangles) ==
    {k \in 1 .. Len(triangles) : k <= Len(file.triList) /\ file.triList[k] < 0}

(* C25: after a successful import_s3d no triangle has the unset material
   usize::MAX; if a triangle of the file had a negative material index, one
   material named "White" has been appended after the textures of the file,
   however many such triangles there are, and every such triangle
   references it; if none had, no material has been appended. *)
C25_WhiteMaterial ==
    (op.name = "import_s3d" /\ status = "ok") =>
        LET file == op.arg
            unset == Untextured_In(file, tList)
        IN  /\ \A k \in 1 .. Len(tList) : tList[k].material # usize_MAX
            /\ unset # {} =>
                  /\ Len(mList) = file.numTextures + 1
                  /\ mList[Len(mList)].diffuseTextureName = "White"
                  /\ \A k \in unset : tList[k].material = file.numTextures
            /\ unset = {} => Len(mList) = file.numTextures

(* A file with textures and two untextured triangles, in two parts, has
   been imported. *)
C25_Witness ==
    /\ op.name = "import_s3d"
    /\ status = "ok"
    /\ op.arg.numTextures > 0
    /\ Len(pList) = 2
    /\ Cardinality(Untextured_In(op.arg, tList)) = 2
    /\ tList[1].part # tList[2].part

===========================================================================
